---- MODULE Spec2Model ----
(***************************************************************************)
(* Verification model of the PDMS radiative-cooling estimation chain:      *)
(*   Q1/Q1.py  optical table, emissivity estimator, corrections, band      *)
(*             average, single-layer thickness optimizer                   *)
(*   Q2/Q2.py  literature-based net cooling evaluator                      *)
(*   Q3/Q3_base_reality.py  multilayer structure model, layer optimizer    *)
(*   Q3/Q3_theory_process.py  theoretical explorer: cooling estimate from  *)
(*             optical constants (in 1/S), material matching               *)
(*                                                                         *)
(* Reals are fixed-point integers.  Units:                                 *)
(*   wavelength        1/WS  um      (WS = 100000)                         *)
(*   refractive index  1/NS          (NS = 200000)                         *)
(*   extinction k      1/KS          (KS = 2000000000)                     *)
(*   everything else   1/S           (S  = 10000): emissivity, thickness   *)
(*                     in um, powers in W/m2, factors                      *)
(* Products are floored to the unit.                                       *)
(***************************************************************************)
EXTENDS Integers, Sequences, FiniteSets, TLC

S  == 10000
WS == 100000
NS == 200000
KS == 2000000000

(***************************************************************************)
(* Fixed-point arithmetic                                                  *)
(***************************************************************************)
Min2(a, b) == IF a <= b THEN a ELSE b
Max2(a, b) == IF a >= b THEN a ELSE b
Abs(a) == IF a < 0 THEN -a ELSE a

\* floor(a * b / S) without intermediate overflow (b >= 0)
Mul(a, b) ==
  LET a1 == a \div S
      a0 == a % S
      b1 == b \div S
      b0 == b % S
  IN  (a1 * b1 * S) + (a1 * b0) + (a0 * b1) + ((a0 * b0) \div S)

MaxInt == 2147483647

\* one more digit d of b in base D: from <<q, r>> for the leading digits
\* to <<q, r>> with that digit appended ((2 * D - 1) * c fits the integer)
QRStep(p, a, d, c, D) ==
  LET t == (D * p[2]) + (a * d)
  IN  <<(D * p[1]) + (t \div c), t % c>>

RECURSIVE QR(_, _, _, _)
\* <<q, r>> with a * b = q * c + r and 0 <= r < c, for 0 <= a < c and b >= 0
QR(a, b, c, D) ==
  IF b = 0 THEN <<0, 0>> ELSE QRStep(QR(a, b \div D, c, D), a, b % D, c, D)

\* <<q, r>> with a * b = q * c + r and 0 <= r < c, for a, b >= 0 and c > 0;
\* the product is formed directly when it fits the machine integer, digit
\* by digit otherwise
WideQR(a, b, c) ==
  IF b = 0 \/ a <= MaxInt \div b THEN <<(a * b) \div c, (a * b) % c>>
  ELSE LET m == Min2(a, b)
           M == Max2(a, b)
           p == QR(M % c, m, c, IF c < 67108864 THEN 16 ELSE 2)
       IN  <<((M \div c) * m) + p[1], p[2]>>

\* -(q + r / c) rounded down
NegFloor(p) == IF p[2] = 0 THEN -p[1] ELSE -p[1] - 1

\* floor(a * b / c) for b >= 0, c > 0 and any sign of a
MulDiv(a, b, c) ==
  CASE c > 0 -> IF a >= 0 THEN WideQR(a, b, c)[1] ELSE NegFloor(WideQR(-a, b, c))

\* a / b in units of 1/S (b > 0)
Div(a, b) == MulDiv(a, S, b)

(***************************************************************************)
(* Q1.py  PDMSFilmModel.load_pdms_data: the tabulated optical constants    *)
(***************************************************************************)
wavelengths_real ==
  <<
    40000, 41000, 42000, 43000, 44000, 45000, 46000, 47000, 48000, 49000,
    50000, 51000, 52000, 53000, 54000, 55000, 56000, 57000, 58000, 59000,
    60000, 61000, 62000, 63000, 64000, 65000, 66000, 67000, 68000, 69000,
    70000, 71000, 72000, 73000, 74000, 75000, 76000, 77000, 78000, 79000,
    80000, 81000, 82000, 83000, 84000, 85000, 86000, 87000, 88000, 89000,
    90000, 91000, 92000, 93000, 94000, 95000, 96000, 97000, 98000, 99000,
    100000, 101000, 102000, 103000, 104000, 105000, 106000, 107000, 108000, 109000,
    110000, 111000, 112000, 113000, 114000, 115000, 116000, 117000, 118000, 119000,
    120000, 121000, 122000, 123000, 124000, 125000, 126000, 127000, 128000, 129000,
    130000, 131000, 132000, 133000, 134000, 135000, 136000, 137000, 138000, 139000,
    140000, 141000, 142000, 143000, 144000, 145000, 146000, 147000, 148000, 149000,
    150000, 151000, 152000, 153000, 154000, 155000, 156000, 157000, 158000, 159000,
    160000, 161000, 162000, 163000, 164000, 165000, 166000, 167000, 168000, 169000,
    170000, 171000, 172000, 173000, 174000, 175000, 176000, 177000, 178000, 179000,
    180000, 181000, 182000, 183000, 184000, 185000, 186000, 187000, 188000, 189000,
    190000, 191000, 192000, 193000, 194000, 195000, 196000, 197000, 198000, 199000,
    200000, 200970, 201900, 202850, 203810, 204780, 205750, 206730, 207730, 208730,
    209750, 210770, 211800, 212850, 213900, 214960, 215680, 216760, 217850, 218960,
    219700, 220820, 221960, 222720, 223870, 224650, 225820, 226610, 227810, 228610,
    229830, 230650, 231880, 232720, 233980, 234820, 235680, 236970, 237840, 238720,
    239600, 240930, 241830, 242740, 243650, 244570, 245960, 246900, 247840, 248800,
    249750, 250720, 251690, 252680, 253660, 254660, 255670, 256680, 257700, 258730,
    259760, 260810, 261860, 262930, 264000, 264540, 265620, 266710, 267820, 268930,
    269490, 270610, 271750, 272890, 273470, 274620, 275790, 276970, 277560, 278760,
    279960, 280570, 281790, 282400, 283640, 284890, 285510, 286780, 287410, 288690,
    289980, 290630, 291940, 292600, 293930, 294600, 295940, 296620, 297980, 298670,
    299360, 300750, 301450, 302860, 303570, 304990, 305710, 306440, 307890, 308630,
    309360, 310850, 311590, 312340, 313860, 314620, 315380, 316930, 317700, 318480,
    319270, 320850, 321640, 322440, 323250, 324870, 325690, 326510, 327330, 328990,
    329830, 330670, 331520, 332370, 333220, 334940, 335810, 336680, 337560, 338440,
    339330, 340220, 341110, 342920, 343830, 344740, 345660, 346580, 347510, 348450,
    349390, 350330, 351280, 352240, 353200, 354160, 355130, 356110, 357090, 358070,
    359070, 360060, 361070, 362070, 363090, 364110, 365130, 366170, 367200, 368250,
    369300, 370350, 371410, 372480, 373550, 374630, 375720, 376810, 377910, 379010,
    380130, 381240, 382370, 383500, 384640, 385780, 386930, 388090, 389260, 390430,
    391610, 392800, 393990, 395190, 396400, 397620, 398840, 400070, 401310, 402550,
    403810, 405070, 406340, 407620, 408900, 410200, 411500, 412810, 414130, 415460,
    416790, 418140, 419490, 420850, 422220, 423600, 424990, 426390, 427800, 429210,
    430640, 432080, 433520, 434980, 436440, 437910, 439400, 440890, 442400, 443910,
    445440, 446970, 448520, 450080, 451650, 453230, 454820, 456420, 458030, 459650,
    461290, 462940, 464600, 466270, 467950, 469650, 471360, 473080, 474810, 476550,
    478310, 480080, 481870, 483670, 485480, 487300, 489140, 491000, 492860, 494740,
    496640, 498550, 500470, 502410, 504370, 506340, 508320, 510330, 512340, 514380,
    516430, 518490, 520570, 522670, 524790, 526920, 529070, 531240, 533430, 535630,
    537850, 540090, 542350, 544630, 546930, 549250, 551590, 553940, 556320, 558720,
    561140, 563580, 566040, 568520, 571030, 573550, 576100, 578670, 581270, 583890,
    586530, 589190, 591880, 594600, 597340, 600110, 602900, 605710, 608560, 611430,
    614330, 617250, 620200, 623190, 626200, 629240, 632310, 635410, 638540, 641700,
    644890, 648110, 651370, 654660, 657980, 661340, 664730, 668160, 671620, 675120,
    678650, 682230, 685830, 689480, 693170, 696900, 700660, 704470, 708320, 712210,
    716150, 720130, 724150, 728220, 732330, 736490, 740700, 744960, 749260, 753620,
    758030, 762490, 767000, 771560, 776180, 780860, 785590, 790380, 795230, 800140,
    805110, 810140, 815240, 820400, 825620, 830910, 836280, 841710, 847210, 852780,
    858430, 864150, 869950, 875830, 881790, 887830, 893950, 900160, 906450, 912840,
    919310, 925880, 932540, 939300, 946150, 953110, 960170, 967330, 974610, 981990,
    989490, 997100, 1004800, 1012700, 1020700, 1028800, 1037000, 1045300, 1053800, 1062500,
    1071300, 1080200, 1089300, 1098500, 1107900, 1117400, 1127200, 1137000, 1147100, 1157300,
    1167800, 1178400, 1189200, 1200200, 1211400, 1222900, 1234500, 1246400, 1258500, 1270800,
    1283400, 1296200, 1309300, 1322700, 1336300, 1350200, 1364500, 1379000, 1393800, 1408900,
    1424400, 1440300, 1456400, 1473000, 1489900, 1507200, 1525000, 1543100, 1561700, 1580800,
    1600300, 1620300, 1640800, 1661800, 1683400, 1705600, 1728300, 1751700, 1775700, 1800300,
    1825700, 1851800, 1878600, 1906200, 1934700, 1964000, 1994200
  >>

n_real ==
  <<
    282982, 282806, 282600, 282358, 282226, 282066, 281886, 281732, 281604, 281466,
    281350, 281228, 281114, 281026, 280860, 280840, 280750, 280676, 280584, 280518,
    280404, 280316, 280278, 280242, 280118, 280094, 280044, 280012, 279968, 279916,
    279814, 279810, 279742, 279634, 279628, 279530, 279500, 279454, 279320, 279290,
    279202, 279234, 279368, 279402, 279258, 279374, 279342, 279304, 279248, 279258,
    279232, 279220, 279166, 279168, 279108, 279092, 279104, 279074, 279026, 279012,
    279050, 279046, 279088, 278242, 278254, 278362, 278204, 278386, 278434, 278440,
    278280, 278404, 278328, 278168, 278210, 278174, 278270, 278268, 278398, 278290,
    278212, 277896, 278106, 277976, 277858, 277950, 277998, 278098, 278018, 277820,
    277756, 277700, 277688, 277790, 277740, 277794, 277828, 278000, 277944, 277846,
    277876, 277672, 277864, 277866, 277858, 277680, 277680, 277790, 277936, 277828,
    277772, 277688, 277700, 277608, 277726, 277844, 277682, 277630, 277574, 277510,
    277496, 277462, 277622, 277450, 277218, 277518, 277502, 277594, 277546, 277438,
    277388, 277510, 277378, 277512, 277472, 277472, 277222, 277406, 277302, 277290,
    277288, 277360, 277408, 277278, 277460, 277424, 277268, 277142, 277302, 277262,
    277200, 277220, 277170, 277246, 277250, 277142, 277092, 277246, 277172, 277306,
    277296, 279848, 279586, 279430, 279102, 278962, 279058, 279124, 279354, 279414,
    279046, 278980, 278950, 278906, 279228, 279592, 279830, 279846, 279442, 279358,
    279628, 280012, 280186, 280166, 279826, 279566, 279506, 279564, 279768, 279966,
    279842, 279680, 279624, 279634, 279668, 279746, 279750, 279538, 279420, 279276,
    279276, 279474, 279576, 279688, 279740, 279744, 279416, 279360, 279396, 279406,
    279292, 279210, 279250, 279264, 279056, 278892, 278936, 279094, 279178, 279096,
    278972, 278916, 278814, 278802, 279002, 279076, 279068, 279014, 279084, 279036,
    278984, 279028, 279078, 279018, 279016, 279070, 279086, 279192, 279264, 279236,
    279066, 279040, 279140, 279208, 279266, 279150, 278988, 278638, 278626, 278916,
    279026, 278956, 278994, 278968, 278806, 278726, 278760, 278754, 278758, 278732,
    278684, 278780, 278862, 278862, 278854, 278742, 278576, 278408, 278228, 278238,
    278288, 278450, 278420, 278336, 278228, 278224, 278176, 278258, 278338, 278346,
    278248, 278072, 277986, 277842, 277752, 277634, 277474, 277300, 277254, 277316,
    277182, 276896, 276544, 276200, 275726, 274194, 273934, 275374, 278632, 281732,
    282854, 282368, 281398, 280158, 280136, 280258, 280310, 280252, 280108, 279898,
    279714, 279608, 279502, 279416, 279412, 279354, 279278, 279288, 279290, 279226,
    279146, 279052, 278976, 278850, 278774, 278742, 278672, 278598, 278550, 278558,
    278570, 278584, 278676, 278706, 278568, 278442, 278408, 278356, 278274, 278234,
    278192, 278104, 278024, 278030, 278092, 278070, 277968, 277898, 277844, 277818,
    277822, 277798, 277770, 277790, 277802, 277736, 277662, 277670, 277672, 277650,
    277654, 277662, 277642, 277592, 277494, 277398, 277372, 277348, 277288, 277290,
    277304, 277222, 277156, 277224, 277414, 277486, 277246, 276978, 276890, 276974,
    276964, 276786, 276660, 276598, 276514, 276426, 276378, 276432, 276500, 276434,
    276324, 276290, 276250, 276158, 276052, 275944, 275850, 275760, 275674, 275614,
    275652, 275756, 275956, 276090, 276066, 275942, 275786, 275702, 275722, 275744,
    275672, 275566, 275490, 275398, 275334, 275290, 275286, 275254, 275102, 274956,
    274904, 274826, 274684, 274602, 274572, 274460, 274280, 274202, 274224, 274302,
    274322, 274232, 274122, 274020, 273948, 273890, 273860, 273714, 273638, 273570,
    273396, 273246, 273152, 273126, 272986, 272800, 272752, 272732, 272664, 272536,
    272376, 272248, 272126, 272034, 271904, 271702, 271576, 271512, 271400, 271272,
    271204, 271092, 270888, 270654, 270416, 270282, 270202, 269970, 269712, 269540,
    269336, 269144, 268896, 268762, 268654, 268514, 268376, 268192, 267896, 267688,
    267396, 267036, 266840, 266574, 266204, 265922, 265422, 264728, 264336, 264106,
    263678, 262988, 262446, 262382, 262310, 261670, 260612, 260076, 260664, 261580,
    261878, 261286, 260174, 258958, 257884, 256726, 255394, 254132, 252824, 251300,
    249516, 247302, 244834, 241494, 236840, 227744, 213840, 226172, 263238, 285806,
    276048, 263850, 256354, 250982, 246780, 243640, 241336, 239142, 236264, 232516,
    228078, 222796, 215680, 207410, 198154, 188486, 181700, 183388, 198592, 225164,
    254140, 277350, 292920, 302330, 307498, 310414, 313758, 320354, 333988, 354936,
    370256, 367752, 354688, 341998, 332050, 323790, 316696, 310680, 305316, 300268,
    295326, 290198, 285962, 283130, 279454, 273260, 265916, 260206, 260616, 265170,
    266398, 266430, 266580, 257144, 246268, 250650, 274260, 320924, 372710, 392526,
    378828, 359306, 346920, 342460, 339108, 332962, 327066, 322558, 318226, 315302,
    315312, 316314, 317098, 316914, 315804, 315796, 315488, 313144, 310108, 307914,
    306498, 304982, 303516, 303224, 302450, 301284, 300672, 300076, 299528, 300002,
    300160, 298700, 298050, 298508, 298112, 297066, 296102
  >>

k_real ==
  <<
    2800, 2760, 2760, 2800, 2800, 2820, 2840, 2860, 2860, 2920,
    2920, 2940, 2960, 2960, 2980, 3020, 3000, 3060, 3100, 3080,
    3140, 3140, 3140, 3160, 3160, 3180, 3160, 3180, 3200, 3200,
    3220, 3240, 3260, 3280, 3380, 3320, 3300, 3340, 3340, 3340,
    3380, 3400, 3440, 3460, 3240, 3520, 3400, 4440, 4680, 4780,
    4640, 4620, 5580, 5200, 5160, 4640, 5560, 5260, 4900, 5120,
    5760, 4520, 5220, 5080, 4880, 4760, 4940, 5040, 5140, 5520,
    5400, 4800, 5320, 5700, 6840, 9620, 9680, 10680, 22000, 29200,
    9500, 7740, 7400, 6000, 5780, 6000, 6080, 6320, 6380, 6220,
    6280, 6220, 6240, 6500, 7080, 8260, 10860, 18900, 19580, 22800,
    28400, 24800, 15740, 13980, 12100, 10220, 10240, 10200, 6060, 10680,
    11680, 13800, 15600, 15700, 15960, 15660, 14560, 11900, 10460, 10020,
    10080, 10340, 11060, 12280, 15340, 19540, 20400, 21600, 36200, 145000,
    119400, 64400, 43200, 79200, 140600, 148200, 69200, 45600, 55600, 47200,
    25200, 18520, 17740, 27800, 39400, 45800, 27000, 16400, 14860, 15740,
    16900, 17660, 19140, 20200, 21600, 22200, 25000, 29000, 28400, 28000,
    26200, 24000, 24600, 20600, 20200, 1902, 17620, 16780, 16600, 17020,
    17980, 19280, 21000, 24000, 28400, 34600, 39200, 47600, 59600, 76600,
    89200, 109200, 129600, 140400, 152600, 160600, 169600, 171800, 172200, 172600,
    175400, 178000, 178200, 173400, 167600, 169800, 175800, 185800, 190400, 191000,
    190200, 188000, 181000, 175800, 180000, 191400, 199600, 198600, 197200, 196000,
    194800, 190200, 182600, 177200, 174800, 173800, 176000, 184000, 194000, 200000,
    206000, 212000, 216000, 216000, 216000, 216000, 218000, 218000, 216000, 218000,
    220000, 222000, 224000, 228000, 228000, 228000, 226000, 230000, 232000, 232000,
    234000, 236000, 238000, 238000, 240000, 242000, 242000, 244000, 242000, 242000,
    242000, 242000, 244000, 244000, 244000, 244000, 248000, 248000, 246000, 248000,
    252000, 252000, 250000, 250000, 254000, 260000, 262000, 264000, 266000, 266000,
    266000, 270000, 274000, 278000, 280000, 280000, 280000, 278000, 274000, 274000,
    276000, 284000, 290000, 292000, 290000, 292000, 294000, 298000, 302000, 302000,
    296000, 294000, 296000, 300000, 2000000, 16140000, 37200000, 63800000, 76600000, 62600000,
    36600000, 16720000, 7100000, 6660000, 9260000, 9120000, 6000000, 2900000, 2100000, 326000,
    326000, 328000, 330000, 334000, 332000, 330000, 334000, 340000, 338000, 340000,
    342000, 340000, 338000, 340000, 342000, 346000, 352000, 350000, 348000, 350000,
    356000, 360000, 362000, 364000, 362000, 356000, 358000, 364000, 340000, 286000,
    238000, 204000, 177200, 158800, 145600, 136600, 130600, 127200, 126000, 127200,
    131200, 138400, 148400, 163400, 188400, 230000, 292000, 356000, 330000, 258000,
    204000, 169000, 148000, 134800, 126400, 121000, 118000, 117400, 118600, 121400,
    125600, 130600, 135400, 139800, 144400, 152200, 161200, 168200, 177400, 190000,
    206000, 222000, 240000, 262000, 290000, 318000, 346000, 374000, 396000, 418000,
    438000, 452000, 452000, 454000, 448000, 450000, 466000, 474000, 472000, 470000,
    466000, 464000, 468000, 472000, 468000, 470000, 480000, 476000, 478000, 484000,
    490000, 498000, 498000, 490000, 490000, 498000, 494000, 500000, 506000, 516000,
    522000, 526000, 516000, 510000, 528000, 520000, 516000, 524000, 526000, 530000,
    520000, 520000, 534000, 560000, 544000, 538000, 552000, 548000, 542000, 534000,
    564000, 560000, 562000, 554000, 554000, 552000, 564000, 568000, 558000, 562000,
    554000, 558000, 582000, 580000, 558000, 554000, 564000, 590000, 582000, 564000,
    550000, 570000, 588000, 614000, 606000, 588000, 1004000, 798000, 476000, 968000,
    2180000, 2420000, 1902000, 2400000, 2200000, 1152000, 678000, 626000, 788000, 920000,
    1426000, 1434000, 982000, 1038000, 520000, 1168000, 1552000, 1206000, 1178000, 1356000,
    2840000, 5140000, 8700000, 13160000, 14080000, 12960000, 17220000, 27400000, 36000000, 33400000,
    24200000, 14800000, 9660000, 6940000, 6140000, 5740000, 6220000, 6240000, 5180000, 5040000,
    7920000, 12100000, 15540000, 18760000, 29400000, 58600000, 342000000, 662000000, 664000000, 348000000,
    108000000, 54600000, 48600000, 56600000, 71200000, 89800000, 104400000, 116200000, 126400000, 135800000,
    148200000, 168200000, 204000000, 262000000, 350000000, 480000000, 674000000, 938000000, 1204000000, 1376000000,
    1410000000, 1342000000, 1232000000, 1124000000, 1038000000, 982000000, 966000000, 982000000, 992000000, 906000000,
    668000000, 388000000, 212000000, 127000000, 84200000, 62400000, 50400000, 41600000, 36600000, 36200000,
    36400000, 42800000, 62600000, 80200000, 82600000, 93200000, 135000000, 224000000, 334000000, 386000000,
    404000000, 444000000, 454000000, 488000000, 686000000, 978000000, 1280000000, 1442000000, 1218000000, 722000000,
    348000000, 204000000, 179200000, 169600000, 125400000, 84400000, 69800000, 66800000, 77400000, 103600000,
    125600000, 128400000, 121200000, 106000000, 93600000, 80000000, 57000000, 39400000, 38800000, 43200000,
    41400000, 37200000, 42400000, 48200000, 46400000, 48200000, 61400000, 71200000, 77400000, 79800000,
    80400000, 85200000, 87600000, 88200000, 91400000, 89400000, 84000000
  >>

TableLen == Len(wavelengths_real)

RECURSIVE SearchSorted(_, _, _, _)
\* numpy.searchsorted(X, x, side='left'): how many entries of X[lo..hi] are
\* < x, plus lo - 1 (X strictly increasing)
SearchSorted(X, x, lo, hi) ==
  IF lo > hi THEN lo - 1
  ELSE LET mid == (lo + hi) \div 2
       IN  IF X[mid] < x THEN SearchSorted(X, x, mid + 1, hi)
           ELSE SearchSorted(X, x, lo, mid - 1)

\* the same interpolant built with fill_value='extrapolate': the end
\* segments are continued linearly beyond the table
InterpExtrapolate(X, Y, x) ==
  LET c  == SearchSorted(X, x, 1, Len(X))
      lo == Max2(1, Min2(c, Len(X) - 1))
      hi == lo + 1
      dx == x - X[lo]
  IN  IF dx >= 0 THEN Y[lo] + MulDiv(Y[hi] - Y[lo], dx, X[hi] - X[lo])
      ELSE Y[lo] - MulDiv(Y[hi] - Y[lo], -dx, X[hi] - X[lo])

\* the same interpolant built with kind='previous': the left sample's value
InterpPrevious(X, Y, x) ==
  IF x < X[1] THEN Y[1]
  ELSE IF x > X[Len(X)] THEN Y[Len(X)]
  ELSE LET c == SearchSorted(X, x, 1, Len(X))
       IN  IF c < Len(X) /\ X[c + 1] = x THEN Y[c + 1] ELSE Y[Max2(1, c)]

\* the straight line through samples lo and lo + 1 evaluated at x
Segment(X, Y, x, lo) ==
  Y[lo] + MulDiv(Y[lo + 1] - Y[lo], x - X[lo], X[lo + 1] - X[lo])

\* scipy interp1d(X, Y, kind='linear', bounds_error=False,
\*                fill_value=(Y[first], Y[last])) evaluated at x
Interp(X, Y, x) ==
  IF x < X[1] THEN Y[1]
  ELSE IF x > X[Len(X)] THEN Y[Len(X)]
  ELSE Segment(X, Y, x, Max2(1, Min2(SearchSorted(X, x, 1, Len(X)), Len(X) - 1)))

n_interp(wavelength) == Interp(wavelengths_real, n_real, wavelength)
k_interp(wavelength) == Interp(wavelengths_real, k_real, wavelength)

(***************************************************************************)
(* np.exp in fixed point: exp(x) = exp(n) * exp(f), x = n + f, 0 <= f < 1  *)
(***************************************************************************)
ExpTerms == 12
ExpNegInt == <<3679, 1353, 498, 183, 67, 25, 9, 3, 1>>
ExpPosInt == <<27183, 73891, 200855, 545982, 1484132, 4034288, 10966332,
               29809580, 81030839, 220264658, 598741417>>

RECURSIVE ExpSeries(_, _, _, _, _)
\* sum_{j >= i-1} (sign*f)^j / j!, given the term t of order i-1 and the
\* partial sum s up to it; terms are rounded to the nearest unit
ExpSeries(f, sign, i, t, s) ==
  IF i > ExpTerms THEN s
  ELSE LET t1 == ((t * f) + ((S * i) \div 2)) \div (S * i)
       IN  ExpSeries(f, sign, i + 1, t1,
                     IF sign > 0 \/ i % 2 = 0 THEN s + t1 ELSE s - t1)

\* exp(x / S) * S; arguments above Len(ExpPosInt) + 1 saturate
Exp(x) ==
  IF x <= 0
  THEN LET n == (-x) \div S
           f == (-x) % S
       IN  IF n > Len(ExpNegInt) THEN 0
           ELSE ((ExpSeries(f, -1, 1, S, S) * (IF n = 0 THEN S ELSE ExpNegInt[n]))
                   + (S \div 2)) \div S
  ELSE LET n == Min2(x \div S, Len(ExpPosInt))
           f == IF x \div S > Len(ExpPosInt) THEN S - 1 ELSE x % S
       IN  Mul(ExpSeries(f, 1, 1, S, S), IF n = 0 THEN S ELSE ExpPosInt[n])

(***************************************************************************)
(* Q1.py  PDMSFilmModel: the regime-dispatching emissivity estimator       *)
(* wavelength in 1/WS um, thickness in 1/S um, n in 1/NS, k in 1/KS        *)
(***************************************************************************)
FourPi == 125664

is_solar_band(wavelength) == 30000 <= wavelength /\ wavelength <= 250000
is_window_band(wavelength) == 800000 <= wavelength /\ wavelength <= 1300000

\* 4 * np.pi * k / wavelength if wavelength > 0 else 0, in 1/S per um
Alpha(wavelength, k) ==
  IF wavelength > 0 THEN MulDiv(k \div 2000, FourPi, 10 * wavelength) ELSE 0

\* (n * thickness / wavelength) % 1
QuarterWave(n, thickness, wavelength) ==
  MulDiv(thickness, n, 2 * wavelength) % S

\* a * (1 - np.exp(-thickness / tau)), tau an integer number of um
Rise(a, thickness, tau) == Mul(a, S - Exp((-thickness) \div tau))

SiliconStrictInterval(wavelength, thickness, n, k, alpha) ==
  IF is_solar_band(wavelength) THEN
    IF thickness < 2 * S THEN
      IF 2000 <= QuarterWave(n, thickness, wavelength)
           /\ QuarterWave(n, thickness, wavelength) <= 3000
      THEN 1500 ELSE 800
    ELSE 500 + Rise(500, thickness, 50)
  ELSE IF is_window_band(wavelength) THEN
    IF k > KS \div 10 THEN
      IF thickness < 5 * S THEN
        LET quarter_wave_condition == QuarterWave(n, thickness, wavelength)
        IN  IF 2000 < quarter_wave_condition /\ quarter_wave_condition < 3000
            THEN 9500
            ELSE IF 7000 < quarter_wave_condition /\ quarter_wave_condition < 8000
            THEN 3000
            ELSE 6000 + Rise(3000, thickness, 3)
      ELSE
        LET absorption_depth == IF alpha > 0 THEN (S * S) \div alpha ELSE 1000 * S
        IN  IF thickness > 2 * absorption_depth THEN 9200
            ELSE 7000 + Mul(2500, S - Exp(Div(-thickness, absorption_depth)))
    ELSE 3000
  ELSE 4000 + Rise(3000, thickness, 20)

\* the solar-band thin-film branch taken up to and including 2 um
SiliconThinUpToTwo(wavelength, thickness, n, k, alpha) ==
  IF is_solar_band(wavelength) THEN
    IF thickness <= 2 * S THEN
      IF 2000 <= QuarterWave(n, thickness, wavelength)
           /\ QuarterWave(n, thickness, wavelength) <= 3000
      THEN 1500 ELSE 800
    ELSE 500 + Rise(500, thickness, 50)
  ELSE IF is_window_band(wavelength) THEN
    IF k > KS \div 10 THEN
      IF thickness < 5 * S THEN
        LET quarter_wave_condition == QuarterWave(n, thickness, wavelength)
        IN  IF 2000 <= quarter_wave_condition /\ quarter_wave_condition <= 3000
            THEN 9500
            ELSE IF 7000 <= quarter_wave_condition /\ quarter_wave_condition <= 8000
            THEN 3000
            ELSE 6000 + Rise(3000, thickness, 3)
      ELSE
        LET absorption_depth == IF alpha > 0 THEN (S * S) \div alpha ELSE 1000 * S
        IN  IF thickness > 2 * absorption_depth THEN 9200
            ELSE 7000 + Mul(2500, S - Exp(Div(-thickness, absorption_depth)))
    ELSE 3000
  ELSE 4000 + Rise(3000, thickness, 20)

_silicon_substrate_model(wavelength, thickness, n, k, alpha) ==
  IF is_solar_band(wavelength) THEN
    IF thickness < 2 * S THEN
      IF 2000 <= QuarterWave(n, thickness, wavelength)
           /\ QuarterWave(n, thickness, wavelength) <= 3000
      THEN 1500 ELSE 800
    ELSE 500 + Rise(500, thickness, 50)
  ELSE IF is_window_band(wavelength) THEN
    IF k > KS \div 10 THEN
      IF thickness < 5 * S THEN
        LET quarter_wave_condition == QuarterWave(n, thickness, wavelength)
        IN  IF 2000 <= quarter_wave_condition /\ quarter_wave_condition <= 3000
            THEN 9500
            ELSE IF 7000 <= quarter_wave_condition /\ quarter_wave_condition <= 8000
            THEN 3000
            ELSE 6000 + Rise(3000, thickness, 3)
      ELSE
        LET absorption_depth == IF alpha > 0 THEN (S * S) \div alpha ELSE 1000 * S
        IN  IF thickness > 2 * absorption_depth THEN 9200
            ELSE 7000 + Mul(2500, S - Exp(Div(-thickness, absorption_depth)))
    ELSE 3000
  ELSE 4000 + Rise(3000, thickness, 20)

_air_substrate_model(wavelength, thickness, n, k, alpha) ==
  IF is_solar_band(wavelength) THEN 300 + Rise(200, thickness, 100)
  ELSE IF is_window_band(wavelength) THEN
    IF k > KS \div 10 THEN
      IF thickness < 10 * S THEN 6000 + Rise(3000, thickness, 8)
      ELSE 8800 + Rise(700, thickness, 30)
    ELSE 3000
  ELSE 4000

_metal_substrate_model(wavelength, thickness, n, k, alpha) ==
  IF is_solar_band(wavelength) THEN 200 + Rise(300, thickness, 50)
  ELSE IF is_window_band(wavelength) THEN
    IF k > KS \div 10 THEN
      IF thickness < 5 * S THEN
        LET quarter_wave == QuarterWave(n, thickness, wavelength)
        IN  IF 2000 <= quarter_wave /\ quarter_wave <= 3000 THEN 9000 ELSE 2000
      ELSE 8500 + Rise(1000, thickness, 20)
    ELSE 1000
  ELSE 3000

\* np.clip(a, a_min, a_max)
Clip(a, a_min, a_max) == Min2(Max2(a, a_min), a_max)

\* the dispatch on self.substrate_type: silicon, air, metal, and the
\* silicon model again for any other substrate type
SubstrateModel(substrate, wavelength, thickness, n, k, alpha) ==
  CASE substrate = "air" -> _air_substrate_model(wavelength, thickness, n, k, alpha)
    [] substrate = "metal" -> _metal_substrate_model(wavelength, thickness, n, k, alpha)
    [] OTHER -> _silicon_substrate_model(wavelength, thickness, n, k, alpha)

\* lines 256-271: alpha from k, then the substrate's model
BaseEmissivity(substrate, wavelength, thickness, n, k) ==
  SubstrateModel(substrate, wavelength, thickness, n, k, Alpha(wavelength, k))

\* the estimate reported in percent: clipped to [0, 98] instead of [0, 0.98]
PhysicalModelPercent(substrate, wavelength, thickness) ==
  CHOOSE epsilon \in
    {Clip(100 * BaseEmissivity(substrate, wavelength, thickness, n, k), 0, 98 * S) :
       n \in {n_interp(wavelength)}, k \in {k_interp(wavelength)}} : TRUE

\* PDMSFilmModel.calculate_emissivity_physical_model: n and k are looked up
\* first, then the estimate is made from their values
PDMSFilmModel_physical_model(substrate, wavelength, thickness) ==
  CHOOSE epsilon \in
    {Clip(BaseEmissivity(substrate, wavelength, thickness, n, k), 0, 9800) :
       n \in {n_interp(wavelength)}, k \in {k_interp(wavelength)}} : TRUE

(***************************************************************************)
(* Q1.py  CorrectedPDMSModel: the correction stages                        *)
(***************************************************************************)
_literature_correction(wavelength, thickness, base_epsilon) ==
  IF is_window_band(wavelength) THEN
    LET target_range == IF wavelength <= 10 * WS THEN <<8500, 9200>> ELSE <<8800, 9500>>
        current_ratio == Div(base_epsilon - 3000, 7000 - 3000)
        target_epsilon == target_range[1]
                            + Mul(current_ratio, target_range[2] - target_range[1])
    IN  IF thickness < 3 * S THEN
          LET weight == Div(thickness, 3 * S)
          IN  Mul(weight, target_epsilon) + Mul(S - weight, base_epsilon)
        ELSE target_epsilon
  ELSE IF is_solar_band(wavelength) THEN Mul(base_epsilon, 9000)
  ELSE base_epsilon

\* strength * np.exp(-0.5 * ((wavelength - peak_wl) / 1.0) ** 2)
peak_contribution(wavelength, peak_wl, strength) ==
  LET d == Abs(wavelength - peak_wl) \div (WS \div S)
  IN  Mul(strength, Exp(-(Mul(d, d) \div 2)))

\* the correction with the thickness term subtracted:
\* thickness_factor = 1.0 - 0.25 * (1 - np.exp(-thickness / 5))
MolecularCorrectionThinning(wavelength, thickness, base_epsilon) ==
  LET enhancement == S + peak_contribution(wavelength, 9 * WS, 4000)
                       + peak_contribution(wavelength, 1250000, 3000)
      thickness_factor == S - Rise(2500, thickness, 5)
      corrected == Mul(Mul(base_epsilon, enhancement), thickness_factor)
  IN  Min2(9500, corrected)

_molecular_correction(wavelength, thickness, base_epsilon) ==
  LET enhancement == S + peak_contribution(wavelength, 9 * WS, 4000)
                       + peak_contribution(wavelength, 1250000, 3000)
      thickness_factor == S + Rise(2500, thickness, 5)
      corrected == Mul(Mul(base_epsilon, enhancement), thickness_factor)
  IN  Min2(9500, corrected)

\* literature_targets of _hybrid_correction, in dictionary order
literature_targets == <<<<50000, 400>>, <<1000000, 9000>>, <<1200000, 9200>>, <<1500000, 4000>>>>

RECURSIVE NearestPointLast(_, _, _)
\* the last point of the list at the least distance
NearestPointLast(wavelength, i, best) ==
  IF i > Len(literature_targets) THEN best
  ELSE NearestPointLast(wavelength, i + 1,
         IF Abs(literature_targets[i][1] - wavelength)
              <= Abs(literature_targets[best][1] - wavelength)
         THEN i ELSE best)

RECURSIVE NearestPoint(_, _, _)
\* min(calibration_points, key=lambda x: abs(x - wavelength)): the first
\* point of the list at the least distance
NearestPoint(wavelength, i, best) ==
  IF i > Len(literature_targets) THEN best
  ELSE NearestPoint(wavelength, i + 1,
         IF Abs(literature_targets[i][1] - wavelength)
              < Abs(literature_targets[best][1] - wavelength)
         THEN i ELSE best)

\* the blend with its two weights exchanged
HybridBlendSwappedWeights(wavelength, nearest, molecular_corrected) ==
  LET target_epsilon == literature_targets[nearest][2]
      distance == Abs(wavelength - literature_targets[nearest][1])
      weight == Exp(-(distance \div (2 * (WS \div S))))
  IN  Mul(S - weight, target_epsilon) + Mul(weight, molecular_corrected)

\* weight * target_epsilon + (1 - weight) * molecular_corrected for the
\* calibration point nearest to the wavelength
HybridBlend(wavelength, nearest, molecular_corrected) ==
  LET target_epsilon == literature_targets[nearest][2]
      distance == Abs(wavelength - literature_targets[nearest][1])
      weight == Exp(-(distance \div (2 * (WS \div S))))
  IN  Mul(weight, target_epsilon) + Mul(S - weight, molecular_corrected)

_hybrid_correction(wavelength, thickness, base_epsilon) ==
  CHOOSE epsilon \in
    {HybridBlend(wavelength, NearestPoint(wavelength, 2, 1), molecular_corrected) :
       molecular_corrected \in
         {_molecular_correction(wavelength, thickness, base_epsilon)}} : TRUE

\* the dispatch falling through to the hybrid stage for an unknown method
CorrectionDefaultsToHybrid(method, wavelength, thickness, base_epsilon) ==
  IF method = "literature" THEN _literature_correction(wavelength, thickness, base_epsilon)
  ELSE IF method = "molecular" THEN _molecular_correction(wavelength, thickness, base_epsilon)
  ELSE _hybrid_correction(wavelength, thickness, base_epsilon)

\* the dispatch on self.correction_method applied to base_epsilon
Correction(method, wavelength, thickness, base_epsilon) ==
  IF method = "literature" THEN _literature_correction(wavelength, thickness, base_epsilon)
  ELSE IF method = "molecular" THEN _molecular_correction(wavelength, thickness, base_epsilon)
  ELSE IF method = "hybrid" THEN _hybrid_correction(wavelength, thickness, base_epsilon)
  ELSE base_epsilon

\* CorrectedPDMSModel.calculate_emissivity_physical_model: the base value
\* is computed first, the stage is applied to it
CorrectedPDMSModel_physical_model(substrate, method, wavelength, thickness) ==
  CHOOSE epsilon \in
    {Correction(method, wavelength, thickness, base_epsilon) :
       base_epsilon \in {PDMSFilmModel_physical_model(substrate, wavelength, thickness)}} :
    TRUE

\* the calibration with the thick-film value left at literature_target
WindowCalibrationThickTarget(wavelength, thickness, base_epsilon) ==
  IF is_window_band(wavelength) THEN
    LET literature_target == 9200
        calibrated == IF thickness < 5 * S THEN
                        LET weight == Div(thickness, 5 * S)
                        IN  Mul(weight, literature_target) + Mul(S - weight, base_epsilon)
                      ELSE literature_target
    IN  Min2(calibrated, 9500)
  ELSE base_epsilon

\* LiteratureCalibratedPDMSModel.calculate_emissivity applied to the value
\* of the inherited calculate_emissivity
WindowCalibration(wavelength, thickness, base_epsilon) ==
  IF is_window_band(wavelength) THEN
    LET literature_target == 9200
        calibrated == IF thickness < 5 * S THEN
                        LET weight == Div(thickness, 5 * S)
                        IN  Mul(weight, literature_target) + Mul(S - weight, base_epsilon)
                      ELSE literature_target - 200
    IN  Min2(calibrated, 9500)
  ELSE base_epsilon

\* what the class adds to the value of the physical model
FinalCalibration(cls, wavelength, thickness, base_epsilon) ==
  IF cls = "LiteratureCalibratedPDMSModel"
  THEN WindowCalibration(wavelength, thickness, base_epsilon)
  ELSE base_epsilon

\* model.calculate_emissivity(wavelength, thickness) for a model object of
\* class cls with the given substrate_type and correction_method; a
\* PDMSFilmModel has no correction stage
calculate_emissivity(cls, substrate, method, wavelength, thickness) ==
  CHOOSE epsilon \in
    {FinalCalibration(cls, wavelength, thickness, base_epsilon) :
       base_epsilon \in
         {CorrectedPDMSModel_physical_model(substrate,
            IF cls = "PDMSFilmModel" THEN "none" ELSE method, wavelength, thickness)}} :
    TRUE

(***************************************************************************)
(* State                                                                   *)
(***************************************************************************)
VARIABLES
  model_class,        \* which class of Q1.py the model object is
  substrate_type,     \* self.substrate_type
  correction_method,  \* self.correction_method
  pc,                 \* "idle", "returned", "raised", or the loop of the running call
  args,               \* arguments of the running call
  ret,                \* record returned by the last completed call
  previous,           \* result of the caller's earlier thickness_optimization run
  i,                  \* loop index of the running call
  thicknesses,        \* locals of thickness_optimization
  window_emissivities,
  solar_emissivities,
  performance_scores,
  results             \* local of analyze_layer_impact

config == <<model_class, substrate_type, correction_method>>
locals == <<i, thicknesses, window_emissivities, solar_emissivities,
            performance_scores, results>>
vars == <<model_class, substrate_type, correction_method, pc, args, ret, previous,
          i, thicknesses, window_emissivities, solar_emissivities,
          performance_scores, results>>

NoRet == [op |-> "none"]

SubstrateTypes == {"silicon", "air", "metal", "glass"}
CorrectionMethods == {"none", "literature", "molecular", "hybrid"}

\* PDMSFilmModel(substrate), CorrectedPDMSModel(substrate, method) or
\* LiteratureCalibratedPDMSModel(substrate, method) has been constructed
Init ==
  /\ model_class \in {"PDMSFilmModel", "CorrectedPDMSModel", "LiteratureCalibratedPDMSModel"}
  /\ substrate_type \in SubstrateTypes
  /\ correction_method \in (IF model_class = "PDMSFilmModel" THEN {"unset"} ELSE CorrectionMethods)
  /\ pc = "idle"
  /\ args = NoRet
  /\ ret = NoRet
  /\ previous = NoRet
  /\ i = 0
  /\ thicknesses = <<>>
  /\ window_emissivities = <<>>
  /\ solar_emissivities = <<>>
  /\ performance_scores = <<>>
  /\ results = <<>>

\* the caller takes the returned record (or catches the exception) and
\* goes on; it keeps the result of a thickness optimization, as main() does
Return ==
  /\ pc \in {"returned", "raised"}
  /\ pc' = "idle"
  /\ ret' = NoRet
  /\ previous' = IF ret.op = "thickness_optimization" THEN ret ELSE previous
  /\ UNCHANGED <<config, args, locals>>

(***************************************************************************)
(* Optical table lookups: self.n_interp(wl), self.k_interp(wl)             *)
(***************************************************************************)
MidPoint(s) == (wavelengths_real[s] + wavelengths_real[s + 1]) \div 2

TableWavelengths ==
  {wavelengths_real[s] : s \in 1..TableLen}
    \cup {MidPoint(s) : s \in 1..(TableLen - 1)}
    \cup {1, 30000, wavelengths_real[1] - 1, wavelengths_real[TableLen] + 1, 2500000}

Interpolate(wl) ==
  /\ pc = "idle"
  /\ ret' = [op |-> "interpolate", wavelength |-> wl,
             n |-> n_interp(wl), k |-> k_interp(wl)]
  /\ pc' = "returned"
  /\ UNCHANGED <<config, args, previous, locals>>

InitTable ==
  /\ Init
  /\ model_class = "PDMSFilmModel"
  /\ substrate_type = "silicon"

NextTable ==
  \/ \E wl \in TableWavelengths : Interpolate(wl)
  \/ Return

SpecTable == InitTable /\ [][NextTable]_vars

\* C2: below the first tabulated wavelength the lookup returns the first
\* sample's (n, k), above the last one the last sample's (n, k)
C2_FlatOutsideTable ==
  ret.op = "interpolate" =>
    /\ ret.wavelength < wavelengths_real[1] =>
         (ret.n = n_real[1] /\ ret.k = k_real[1])
    /\ ret.wavelength > wavelengths_real[TableLen] =>
         (ret.n = n_real[TableLen] /\ ret.k = k_real[TableLen])

C2_Witness ==
  /\ ret.op = "interpolate"
  /\ ret.wavelength > wavelengths_real[TableLen]
  /\ ret.n = n_real[TableLen]

\* C3: at the midpoint of two adjacent samples the lookup returns the mean
\* of their n and of their k; at a sample it returns the sample
C3_MidpointLinear ==
  ret.op = "interpolate" =>
    /\ \A s \in 1..(TableLen - 1) :
         ret.wavelength = MidPoint(s) =>
           /\ ret.n - n_real[s] = n_real[s + 1] - ret.n
           /\ ret.k - k_real[s] = k_real[s + 1] - ret.k
    /\ \A s \in 1..TableLen :
         ret.wavelength = wavelengths_real[s] =>
           (ret.n = n_real[s] /\ ret.k = k_real[s])

C3_Witness ==
  /\ ret.op = "interpolate"
  /\ \E s \in 1..(TableLen - 1) :
       /\ ret.wavelength = MidPoint(s)
       /\ n_real[s] # n_real[s + 1]
       /\ ret.n - n_real[s] = n_real[s + 1] - ret.n

(***************************************************************************)
(* Point queries: model.calculate_emissivity(wavelength, thickness)        *)
(***************************************************************************)
\* band edges, anchors and peaks, weakly absorbing window wavelengths
\* (10.5 um), and wavelengths outside every band and outside the table
WavelengthValues ==
  {20000, 30000, 50000, 150000, 250000, 500000, 800000, 900000, 1000000,
   1050000, 1200000, 1250000, 1300000, 1500000, 2500000}

\* thin and thick films, the regime thresholds 2, 3, 5 and 10 um, a
\* negative thickness, and the thicknesses at which the quarter-wave
\* fraction at 10 um is 0.1999, 0.2, 0.3, 0.3001, 0.6999, 0.7, 0.8, 0.8001
ThicknessValues ==
  {-200000, 5000, 10000, 20000, 30000, 50000, 100000, 500000, 1000000,
   11019, 11025, 16537, 16543, 38580, 38586, 44098, 44104}

CalculateEmissivity(wavelength, thickness) ==
  /\ pc = "idle"
  /\ ret' = [op |-> "calculate_emissivity",
             wavelength |-> wavelength, thickness |-> thickness,
             value |-> calculate_emissivity(model_class, substrate_type,
                                            correction_method, wavelength, thickness)]
  /\ pc' = "returned"
  /\ UNCHANGED <<config, args, previous, locals>>

\* C1: the base estimator returns a value in [0, 0.98] for every positive
\* wavelength, positive thickness and substrate silicon, air or metal
C1_BaseEmissivityRange ==
  (/\ ret.op = "calculate_emissivity"
   /\ model_class = "PDMSFilmModel"
   /\ substrate_type \in {"silicon", "air", "metal"}
   /\ ret.wavelength > 0
   /\ ret.thickness > 0)
  => (0 <= ret.value /\ ret.value <= 9800)

C1_Witness ==
  /\ ret.op = "calculate_emissivity"
  /\ model_class = "PDMSFilmModel"
  /\ substrate_type = "air"
  /\ ret.thickness = 1000000
  /\ is_window_band(ret.wavelength)
  /\ ret.value > 9000
  /\ ret.value <= 9800

\* C5: in the silicon window thin-film branch a quarter-wave fraction of
\* exactly 0.2 or 0.3 gives 0.95, and exactly 0.7 or 0.8 gives 0.3
InSiliconThinWindowBranch ==
  /\ ret.op = "calculate_emissivity"
  /\ model_class = "PDMSFilmModel"
  /\ substrate_type = "silicon"
  /\ is_window_band(ret.wavelength)
  /\ k_interp(ret.wavelength) > KS \div 10
  /\ ret.thickness < 5 * S

RetQuarterWave == QuarterWave(n_interp(ret.wavelength), ret.thickness, ret.wavelength)

C5_QuarterWaveInclusive ==
  InSiliconThinWindowBranch =>
    /\ RetQuarterWave \in {2000, 3000} => ret.value = 9500
    /\ RetQuarterWave \in {7000, 8000} => ret.value = 3000

C5_Witness ==
  /\ InSiliconThinWindowBranch
  /\ RetQuarterWave = 3000
  /\ ret.value = 9500

\* C6: with correction method 'none' the corrected model returns the value
\* of the uncorrected PDMSFilmModel for the same inputs
C6_NonePassesThrough ==
  (/\ ret.op = "calculate_emissivity"
   /\ model_class = "CorrectedPDMSModel"
   /\ correction_method = "none")
  => ret.value = PDMSFilmModel_physical_model(substrate_type, ret.wavelength, ret.thickness)

C6_Witness ==
  /\ ret.op = "calculate_emissivity"
  /\ model_class = "CorrectedPDMSModel"
  /\ correction_method = "none"
  /\ ret.wavelength = 1000000
  /\ ret.thickness = 50000
  /\ ret.value = PDMSFilmModel_physical_model(substrate_type, 1000000, 50000)
  /\ ret.value # _hybrid_correction(1000000, 50000, ret.value)

\* C11: with the hybrid correction a wavelength equal to a calibration
\* anchor (0.5, 10, 12, 15 um) returns the anchor value (0.04, 0.90, 0.92,
\* 0.40) for every thickness and substrate; silicon at 10 um and 5 um
\* thickness is within [0.85, 0.93]
C11_HybridAnchors ==
  (ret.op = "calculate_emissivity" /\ correction_method = "hybrid") =>
    /\ model_class = "CorrectedPDMSModel" =>
         /\ ret.wavelength = 50000 => ret.value = 400
         /\ ret.wavelength = 1000000 => ret.value = 9000
         /\ ret.wavelength = 1200000 => ret.value = 9200
         /\ ret.wavelength = 1500000 => ret.value = 4000
    /\ (/\ model_class \in {"CorrectedPDMSModel", "LiteratureCalibratedPDMSModel"}
        /\ substrate_type = "silicon"
        /\ ret.wavelength = 1000000
        /\ ret.thickness = 50000)
       => (8500 <= ret.value /\ ret.value <= 9300)

C11_Witness ==
  /\ ret.op = "calculate_emissivity"
  /\ model_class = "CorrectedPDMSModel"
  /\ correction_method = "hybrid"
  /\ substrate_type = "silicon"
  /\ ret.wavelength = 1000000
  /\ ret.thickness = 50000
  /\ ret.value = 9000
  /\ _molecular_correction(1000000, 50000,
        PDMSFilmModel_physical_model("silicon", 1000000, 50000)) # 9000

\* C12: silicon without correction, a solar-band wavelength and a thickness
\* of at least 2 um: the emissivity is 0.05 + 0.05 * (1 - exp(-thickness / 50))
\* and lies in [0.05, 0.10]
C12_SiliconSolarThickFilm ==
  (/\ ret.op = "calculate_emissivity"
   /\ substrate_type = "silicon"
   /\ (model_class = "PDMSFilmModel" \/ correction_method = "none")
   /\ is_solar_band(ret.wavelength)
   /\ ret.thickness >= 2 * S)
  => /\ ret.value = 500 + Mul(500, S - Exp((-ret.thickness) \div 50))
     /\ 500 <= ret.value /\ ret.value <= 1000

C12_Witness ==
  /\ ret.op = "calculate_emissivity"
  /\ substrate_type = "silicon"
  /\ model_class = "CorrectedPDMSModel"
  /\ correction_method = "none"
  /\ ret.wavelength = 50000
  /\ ret.thickness = 500000
  /\ ret.value > 800
  /\ ret.value < 830

(***************************************************************************)
(* Q1.py  band average and single-layer thickness optimizer                *)
(***************************************************************************)
\* the grid built without its end point: np.linspace(..., endpoint=False)
LinspaceOpenEnd(start, stop, num) ==
  [j \in 1..num |-> start + (((stop - start) * (j - 1)) \div num)]

\* np.linspace(start, stop, num) for num >= 1
Linspace(start, stop, num) ==
  [j \in 1..num |->
     IF num = 1 THEN start
     ELSE start + (((stop - start) * (j - 1)) \div (num - 1))]

RECURSIVE SeqSum(_, _, _)
\* s[lo] + ... + s[hi], added pairwise
SeqSum(s, lo, hi) ==
  IF lo > hi THEN 0
  ELSE IF lo = hi THEN s[lo]
  ELSE SeqSum(s, lo, (lo + hi) \div 2) + SeqSum(s, ((lo + hi) \div 2) + 1, hi)

\* np.mean of a non-empty list
Mean(s) == SeqSum(s, 1, Len(s)) \div Len(s)

\* default n_points of calculate_band_emissivity
BandPoints == 30

\* [self.calculate_emissivity(wl, thickness) for wl in wavelengths]
BandSamples(cls, substrate, method, wavelengths, thickness) ==
  [j \in 1..Len(wavelengths) |->
     calculate_emissivity(cls, substrate, method, wavelengths[j], thickness)]

calculate_band_emissivity(cls, substrate, method, lambda_min, lambda_max, thickness, n_points) ==
  Mean(BandSamples(cls, substrate, method,
                   Linspace(lambda_min, lambda_max, n_points), thickness))

WindowBand(thickness) ==
  calculate_band_emissivity(model_class, substrate_type, correction_method,
                            8 * WS, 13 * WS, thickness, BandPoints)
SolarBand(thickness) ==
  calculate_band_emissivity(model_class, substrate_type, correction_method,
                            30000, 250000, thickness, BandPoints)

\* window_emissivity / max(solar_emissivity, 0.01), lines 432 and 443
Selectivity(window_emissivity, solar_emissivity) ==
  Div(window_emissivity, Max2(solar_emissivity, 100))

RECURSIVE ArgMaxLast(_, _, _)
\* the last index holding the maximum
ArgMaxLast(s, j, best) ==
  IF j > Len(s) THEN best
  ELSE ArgMaxLast(s, j + 1, IF s[j] >= s[best] THEN j ELSE best)

RECURSIVE ArgMax(_, _, _)
\* np.argmax: the first index holding the maximum (1-based here)
ArgMax(s, j, best) ==
  IF j > Len(s) THEN best
  ELSE ArgMax(s, j + 1, IF s[j] > s[best] THEN j ELSE best)

MaxPoints == 3
ThicknessRanges == {<<5000, 1000000>>, <<-200000, 100000>>}

\* lists that outlive the call: the new run appends to the lists of the
\* result the caller still holds
StartOptimizationKeepLists(thickness_range, n_points) ==
  /\ pc = "idle"
  /\ args' = [op |-> "thickness_optimization",
              thickness_range |-> thickness_range, n_points |-> n_points]
  /\ thicknesses' = Linspace(thickness_range[1], thickness_range[2], n_points)
  /\ performance_scores' = IF previous.op = "thickness_optimization"
                           THEN previous.performance_scores ELSE <<>>
  /\ window_emissivities' = IF previous.op = "thickness_optimization"
                            THEN previous.window_emissivities ELSE <<>>
  /\ solar_emissivities' = IF previous.op = "thickness_optimization"
                           THEN previous.solar_emissivities ELSE <<>>
  /\ i' = 1
  /\ pc' = "optimize"
  /\ UNCHANGED <<config, ret, previous, results>>

\* thickness_optimization, lines 415-419: the grid and the empty lists
StartOptimization(thickness_range, n_points) ==
  /\ pc = "idle"
  /\ args' = [op |-> "thickness_optimization",
              thickness_range |-> thickness_range, n_points |-> n_points]
  /\ thicknesses' = Linspace(thickness_range[1], thickness_range[2], n_points)
  /\ performance_scores' = <<>>
  /\ window_emissivities' = <<>>
  /\ solar_emissivities' = <<>>
  /\ i' = 1
  /\ pc' = "optimize"
  /\ UNCHANGED <<config, ret, previous, results>>

\* an iteration that advances the index by two and so leaves out every
\* second grid point
OptimizationStepSkipping ==
  /\ pc = "optimize"
  /\ i <= Len(thicknesses)
  /\ \E window_emissivity \in {WindowBand(thicknesses[i])},
        solar_emissivity \in {SolarBand(thicknesses[i])} :
       \E selectivity \in {Selectivity(window_emissivity, solar_emissivity)} :
         \E performance_score \in {Mul(window_emissivity, selectivity)} :
           /\ window_emissivities' = Append(window_emissivities, window_emissivity)
           /\ solar_emissivities' = Append(solar_emissivities, solar_emissivity)
           /\ performance_scores' = Append(performance_scores, performance_score)
  /\ i' = i + 2
  /\ UNCHANGED <<config, pc, args, ret, previous, thicknesses, results>>

\* one iteration of the for loop, lines 421-436
OptimizationStep ==
  /\ pc = "optimize"
  /\ i <= Len(thicknesses)
  /\ \E window_emissivity \in {WindowBand(thicknesses[i])},
        solar_emissivity \in {SolarBand(thicknesses[i])} :
       \E selectivity \in {Selectivity(window_emissivity, solar_emissivity)} :
         \E performance_score \in {Mul(window_emissivity, selectivity)} :
           /\ window_emissivities' = Append(window_emissivities, window_emissivity)
           /\ solar_emissivities' = Append(solar_emissivities, solar_emissivity)
           /\ performance_scores' = Append(performance_scores, performance_score)
  /\ i' = i + 1
  /\ UNCHANGED <<config, pc, args, ret, previous, thicknesses, results>>

\* after the loop, lines 439-460: argmax and the returned dictionary
FinishOptimization ==
  /\ pc = "optimize"
  /\ i > Len(thicknesses)
  /\ LET optimal_idx == ArgMax(performance_scores, 2, 1)
         optimal_window_emis == window_emissivities[optimal_idx]
         optimal_solar_emis == solar_emissivities[optimal_idx]
     IN  ret' = [op |-> "thickness_optimization",
                 thickness_range |-> args.thickness_range,
                 n_points |-> args.n_points,
                 thicknesses |-> thicknesses,
                 window_emissivities |-> window_emissivities,
                 solar_emissivities |-> solar_emissivities,
                 performance_scores |-> performance_scores,
                 optimal_thickness |-> thicknesses[optimal_idx],
                 optimal_window_emissivity |-> optimal_window_emis,
                 optimal_solar_emissivity |-> optimal_solar_emis,
                 optimal_selectivity |-> Selectivity(optimal_window_emis, optimal_solar_emis)]
  /\ pc' = "returned"
  /\ args' = NoRet
  /\ i' = 0
  /\ thicknesses' = <<>>
  /\ window_emissivities' = <<>>
  /\ solar_emissivities' = <<>>
  /\ performance_scores' = <<>>
  /\ UNCHANGED <<config, previous, results>>

\* model.calculate_band_emissivity(lambda_min, lambda_max, thickness)
Bands == {<<8 * WS, 13 * WS>>, <<30000, 250000>>}
\* the call with its locals wavelengths and emissivities
CalculateBandEmissivity(band, thickness, n_points) ==
  /\ pc = "idle"
  /\ \E wavelengths \in {Linspace(band[1], band[2], n_points)} :
       \E emissivities \in {BandSamples(model_class, substrate_type, correction_method,
                                         wavelengths, thickness)} :
         ret' = [op |-> "calculate_band_emissivity",
                 lambda_min |-> band[1], lambda_max |-> band[2],
                 thickness |-> thickness, n_points |-> n_points,
                 wavelengths |-> wavelengths, emissivities |-> emissivities,
                 value |-> Mean(emissivities)]
  /\ pc' = "returned"
  /\ UNCHANGED <<config, args, previous, locals>>

BandThicknesses == {-200000, 5000, 100000, 300000}

NextEmissivity ==
  \/ \E wavelength \in WavelengthValues, thickness \in ThicknessValues :
       CalculateEmissivity(wavelength, thickness)
  \/ \E band \in Bands, thickness \in BandThicknesses :
       CalculateBandEmissivity(band, thickness, BandPoints)
  \/ Return

SpecEmissivity == Init /\ [][NextEmissivity]_vars

NextOptimize ==
  \/ \E thickness_range \in ThicknessRanges, n_points \in 2..MaxPoints :
       StartOptimization(thickness_range, n_points)
  \/ OptimizationStep
  \/ FinishOptimization
  \/ Return

InitOptimize == Init /\ substrate_type \in {"silicon", "air", "metal"}

SpecOptimize == InitOptimize /\ [][NextOptimize]_vars

\* C8: two thickness optimizations of the same model with the same range
\* and n_points return the same optimum, emissivities and score list
C8_OptimizerDeterministic ==
  (/\ ret.op = "thickness_optimization"
   /\ previous.op = "thickness_optimization"
   /\ ret.thickness_range = previous.thickness_range
   /\ ret.n_points = previous.n_points)
  => /\ ret.optimal_thickness = previous.optimal_thickness
     /\ ret.optimal_window_emissivity = previous.optimal_window_emissivity
     /\ ret.optimal_solar_emissivity = previous.optimal_solar_emissivity
     /\ ret.performance_scores = previous.performance_scores

C8_Witness ==
  /\ ret.op = "thickness_optimization"
  /\ previous.op = "thickness_optimization"
  /\ ret.thickness_range = previous.thickness_range
  /\ ret.n_points = previous.n_points
  /\ ret.n_points = MaxPoints
  /\ ret.performance_scores = previous.performance_scores
  /\ ret.performance_scores[1] # ret.performance_scores[2]

(***************************************************************************)
(* model.calculate_band_emissivity(lambda_min, lambda_max, thickness,      *)
(*                                 n_points)                               *)
(***************************************************************************)
\* the two bands of the optimizer, a band inside the window, a band given
\* from its upper end, a band beyond the window
BandRanges ==
  Bands \cup {<<900000, 1100000>>, <<1300000, 800000>>, <<1400000, 1600000>>}

\* a single sample, the shortest grids, the default
PointCounts == {1, 2, 3, BandPoints}

NextBand ==
  \/ \E band \in BandRanges, thickness \in BandThicknesses, n_points \in PointCounts :
       CalculateBandEmissivity(band, thickness, n_points)
  \/ Return

SpecBand == Init /\ [][NextBand]_vars

\* the samples are those of calculate_emissivity of the model, the value is
\* their mean, and a literature-calibrated model reports its calibrated
\* 0.90 over a window band at 5 um or more
BandChainAndMean ==
  /\ Len(ret.emissivities) = Len(ret.wavelengths)
  /\ \A j \in 1..Len(ret.wavelengths) :
       ret.emissivities[j] = calculate_emissivity(model_class, substrate_type,
                                correction_method, ret.wavelengths[j], ret.thickness)
  /\ ret.n_points * ret.value <= SeqSum(ret.emissivities, 1, ret.n_points)
  /\ SeqSum(ret.emissivities, 1, ret.n_points) < ret.n_points * (ret.value + 1)
  /\ (/\ model_class = "LiteratureCalibratedPDMSModel"
      /\ is_window_band(ret.lambda_min) /\ is_window_band(ret.lambda_max)
      /\ ret.thickness >= 5 * S) => ret.value = 9000
  /\ ret.n_points = BandPoints => Len(ret.wavelengths) = 30

\* n_points wavelengths, the first lambda_min, the last lambda_max, equal
\* steps (to the last digit kept)
BandGridInclusive ==
  /\ Len(ret.wavelengths) = ret.n_points
  /\ ret.wavelengths[1] = ret.lambda_min
  /\ ret.wavelengths[ret.n_points] = ret.lambda_max
  /\ \A j \in 2..(ret.n_points - 1) :
       Abs((ret.wavelengths[j + 1] - ret.wavelengths[j])
             - (ret.wavelengths[j] - ret.wavelengths[j - 1])) <= 1

\* C15 as stated: calculate_band_emissivity evaluates the full
\* calculate_emissivity chain at exactly n_points equally spaced wavelengths
\* that include lambda_min and lambda_max and returns their mean, for every
\* n_points
C15_BandAverageEveryCount ==
  ret.op = "calculate_band_emissivity" => (BandGridInclusive /\ BandChainAndMean)

\* C15 amended: the same for n_points >= 2; with n_points = 1 the single
\* sample is taken at lambda_min
C15_BandAverage ==
  ret.op = "calculate_band_emissivity" =>
    /\ BandChainAndMean
    /\ ret.n_points >= 2 => BandGridInclusive
    /\ ret.n_points = 1 => ret.wavelengths = <<ret.lambda_min>>

C15_Witness ==
  /\ ret.op = "calculate_band_emissivity"
  /\ model_class = "LiteratureCalibratedPDMSModel"
  /\ ret.n_points = 30
  /\ ret.lambda_min = 800000
  /\ ret.lambda_max = 1300000
  /\ ret.wavelengths[30] = 1300000
  /\ ret.thickness = 100000
  /\ ret.value = 9000

(***************************************************************************)
(* thickness_optimization: the score and the choice of the optimum         *)
(***************************************************************************)
\* the grid of the default call shortened, and a grid of films so thick
\* that both band averages no longer change with the thickness
ScoreRanges == {<<5000, 1000000>>, <<5000000, 10000000>>}

NextScore ==
  \/ \E thickness_range \in ScoreRanges, n_points \in 1..MaxPoints :
       StartOptimization(thickness_range, n_points)
  \/ OptimizationStep
  \/ FinishOptimization
  \/ Return

SpecScore == InitOptimize /\ [][NextScore]_vars

\* C16: each score is window * (window / max(solar, 0.01)); the optimal
\* thickness is the first grid point whose score no other grid point
\* exceeds, and the optimal emissivities and selectivity are those of it
C16_FirstBestScore ==
  ret.op = "thickness_optimization" =>
    LET n == Len(ret.thicknesses)
        w == ret.window_emissivities
        a == ret.solar_emissivities
        score == ret.performance_scores
    IN  /\ Len(score) = n /\ Len(w) = n /\ Len(a) = n
        /\ \A j \in 1..n : score[j] = Mul(w[j], Div(w[j], Max2(a[j], 100)))
        /\ \E b \in 1..n :
             /\ \A j \in 1..n : score[j] <= score[b]
             /\ \A j \in 1..(b - 1) : score[j] < score[b]
             /\ ret.optimal_thickness = ret.thicknesses[b]
             /\ ret.optimal_window_emissivity = w[b]
             /\ ret.optimal_solar_emissivity = a[b]
             /\ ret.optimal_selectivity = Div(w[b], Max2(a[b], 100))

\* three grid points with the same score: the first is returned
C16_Witness ==
  /\ ret.op = "thickness_optimization"
  /\ ret.n_points = 3
  /\ ret.performance_scores[1] = ret.performance_scores[2]
  /\ ret.performance_scores[2] = ret.performance_scores[3]
  /\ ret.thicknesses[1] < ret.thicknesses[3]
  /\ ret.optimal_thickness = ret.thicknesses[1]

(***************************************************************************)
(* thickness_optimization: the loop runs to its end                        *)
(***************************************************************************)
\* the steps of a started call seen from the loop index: an iteration of
\* the for loop (OptimizationStep) and the statements after the loop
\* (FinishOptimization)
LoopIteration == pc = "optimize" /\ i <= Len(thicknesses) /\ i' = i + 1
LoopExit == pc = "optimize" /\ i > Len(thicknesses) /\ pc' = "returned"

\* a started call executes its for loop and its return statement: Python
\* runs the call to its end, no step of it waits on anything
SpecScoreFair == SpecScore /\ WF_i(LoopIteration) /\ WF_pc(LoopExit)

\* grid is the list of n equally spaced thicknesses of the range, in
\* increasing order
EquallySpacedGrid(grid, thickness_range, n) ==
  /\ Len(grid) = n
  /\ \A j \in 1..n :
       grid[j] = IF n = 1 THEN thickness_range[1]
                 ELSE thickness_range[1]
                        + (((thickness_range[2] - thickness_range[1]) * (j - 1)) \div (n - 1))
  /\ \A j \in 1..(n - 1) : grid[j] <= grid[j + 1]

\* entry j of each of the three lists belongs to grid point j
AlignedWithGrid(grid, window, solar, scores, done) ==
  /\ Len(window) = done
  /\ Len(solar) = done
  /\ Len(scores) = done
  /\ \A j \in 1..done :
       /\ window[j] = WindowBand(grid[j])
       /\ solar[j] = SolarBand(grid[j])
       /\ scores[j] = Mul(window[j], Selectivity(window[j], solar[j]))

\* inside the loop the grid points before index i have been scored, each
\* once; the returned lists have length N and are aligned with the grid
GridScoredInOrder ==
  /\ (pc = "optimize") =>
       /\ args.n_points >= 1
       /\ i >= 1
       /\ i <= args.n_points + 1
       /\ EquallySpacedGrid(thicknesses, args.thickness_range, args.n_points)
       /\ AlignedWithGrid(thicknesses, window_emissivities, solar_emissivities,
                          performance_scores, i - 1)
  /\ (pc = "returned" /\ ret.op = "thickness_optimization") =>
       /\ EquallySpacedGrid(ret.thicknesses, ret.thickness_range, ret.n_points)
       /\ AlignedWithGrid(ret.thicknesses, ret.window_emissivities, ret.solar_emissivities,
                          ret.performance_scores, ret.n_points)

\* an iteration scores the grid point at index i, the next in increasing
\* order: one window-band and one solar-band value are appended and the
\* index advances by one; the return comes only after the last grid point
ScoresNextGridPoint ==
  /\ (pc = "optimize" /\ pc' = "optimize") =>
       /\ i' = i + 1
       /\ thicknesses' = thicknesses
       /\ window_emissivities' = Append(window_emissivities, WindowBand(thicknesses[i]))
       /\ solar_emissivities' = Append(solar_emissivities, SolarBand(thicknesses[i]))
       /\ Len(performance_scores') = Len(performance_scores) + 1
  /\ (pc = "optimize" /\ pc' /= "optimize") =>
       /\ i = args.n_points + 1
       /\ pc' = "returned"
       /\ ret'.op = "thickness_optimization"
       /\ ret'.n_points = args.n_points

\* C27: thickness_optimization with n_points = N terminates after scoring
\* each of the N equally spaced grid thicknesses exactly once, in
\* increasing thickness order, with one window-band and one solar-band
\* aggregation per grid point; the returned thicknesses,
\* window_emissivities, solar_emissivities and performance_scores each have
\* length N and index i of each refers to the same grid point
C27_ScoresEachGridPointOnce ==
  /\ []GridScoredInOrder
  /\ [][ScoresNextGridPoint]_vars
  /\ (pc = "optimize") ~> (pc = "returned" /\ ret.op = "thickness_optimization")

\* a run over three grid points has returned
C27_Witness ==
  /\ pc = "returned"
  /\ ret.op = "thickness_optimization"
  /\ ret.n_points = 3
  /\ Len(ret.thicknesses) = 3
  /\ ret.thicknesses[1] < ret.thicknesses[2]
  /\ ret.thicknesses[2] < ret.thicknesses[3]
  /\ Len(ret.window_emissivities) = 3
  /\ Len(ret.solar_emissivities) = 3
  /\ Len(ret.performance_scores) = 3

(***************************************************************************)
(* Q2.py  LiteratureBasedRadiativeCoolingEvaluator                         *)
(* temperatures in K, irradiance in W/m2 (integers); wind speed, powers    *)
(* and temperature drops in 1/S                                            *)
(***************************************************************************)
\* self.literature_performance: thickness (um) -> cooling power, delta T
thickness_vs_cooling == <<<<1, 450000>>, <<5, 780000>>, <<10, 930000>>,
                          <<20, 850000>>, <<50, 650000>>>>
thickness_vs_deltaT == <<<<1, 45000>>, <<5, 72000>>, <<10, 82000>>,
                         <<20, 75000>>, <<50, 58000>>>>

\* sorted(self.literature_performance['thickness_vs_cooling'].keys())
available_thickness == [a \in 1..Len(thickness_vs_cooling) |-> thickness_vs_cooling[a][1] * S]

RECURSIVE FirstBracket(_, _)
\* the first index a with available_thickness[a] <= thickness <= available_thickness[a + 1]
FirstBracket(thickness, a) ==
  IF available_thickness[a] <= thickness /\ thickness <= available_thickness[a + 1]
  THEN a ELSE FirstBracket(thickness, a + 1)

\* no interpolation: the anchor at the lower end of the bracket
LiteraturePerformanceLowerAnchor(thickness) ==
  LET last == Len(available_thickness)
  IN  IF thickness <= available_thickness[1]
      THEN <<thickness_vs_cooling[1][2], thickness_vs_deltaT[1][2]>>
      ELSE IF thickness >= available_thickness[last]
      THEN <<thickness_vs_cooling[last][2], thickness_vs_deltaT[last][2]>>
      ELSE LET a == FirstBracket(thickness, 1)
           IN  <<thickness_vs_cooling[a][2], thickness_vs_deltaT[a][2]>>

\* the upper clamp returning the first anchor instead of the last
LiteraturePerformanceUpperClampFirst(thickness) ==
  LET last == Len(available_thickness)
  IN  IF thickness <= available_thickness[1] \/ thickness >= available_thickness[last]
      THEN <<thickness_vs_cooling[1][2], thickness_vs_deltaT[1][2]>>
      ELSE LET a == FirstBracket(thickness, 1)
               t1 == available_thickness[a]
               t2 == available_thickness[a + 1]
               p1 == thickness_vs_cooling[a][2]
               p2 == thickness_vs_cooling[a + 1][2]
               d1 == thickness_vs_deltaT[a][2]
               d2 == thickness_vs_deltaT[a + 1][2]
               fraction == Div(thickness - t1, t2 - t1)
           IN  <<p1 + Mul(fraction, p2 - p1), d1 + Mul(fraction, d2 - d1)>>

\* <<base_cooling, base_deltaT>>
get_literature_performance(thickness) ==
  LET last == Len(available_thickness)
  IN  IF thickness <= available_thickness[1]
      THEN <<thickness_vs_cooling[1][2], thickness_vs_deltaT[1][2]>>
      ELSE IF thickness >= available_thickness[last]
      THEN <<thickness_vs_cooling[last][2], thickness_vs_deltaT[last][2]>>
      ELSE LET a == FirstBracket(thickness, 1)
               t1 == available_thickness[a]
               t2 == available_thickness[a + 1]
               p1 == thickness_vs_cooling[a][2]
               p2 == thickness_vs_cooling[a + 1][2]
               d1 == thickness_vs_deltaT[a][2]
               d2 == thickness_vs_deltaT[a + 1][2]
               fraction == Div(thickness - t1, t2 - t1)
           IN  <<p1 + Mul(fraction, p2 - p1), d1 + Mul(fraction, d2 - d1)>>

\* reference conditions of calculate_environment_adjustment
T_amb_ref == 300
T_sky_ref == 275
G_sun_ref == 800
wind_ref == 10000

\* (T_amb ** 4 - T_sky ** 4) / (T_amb_ref ** 4 - T_sky_ref ** 4), the
\* fourth powers factored as (a - b)(a + b)(a^2 + b^2)
temp_factor(T_amb, T_sky) ==
  MulDiv(MulDiv((T_amb - T_sky) * S, T_amb + T_sky,
                (T_amb_ref - T_sky_ref) * (T_amb_ref + T_sky_ref)),
         (T_amb * T_amb) + (T_sky * T_sky),
         (T_amb_ref * T_amb_ref) + (T_sky_ref * T_sky_ref))

\* 1 - 0.0005 * (G_sun - G_sun_ref)
solar_factor(G_sun) == S - (5 * (G_sun - G_sun_ref))

\* 1 - 0.05 * (wind_speed - wind_ref)
wind_factor(wind_speed) == S - Mul(500, wind_speed - wind_ref)

\* the product returned without the lower limit: min(adjustment, 1.5)
EnvironmentAdjustmentNoFloor(environment_profile) ==
  LET adjustment == Mul(Mul(temp_factor(environment_profile.T_amb, environment_profile.T_sky),
                            solar_factor(environment_profile.G_sun_total)),
                        wind_factor(environment_profile.wind_speed))
  IN  Min2(adjustment, 15000)

calculate_environment_adjustment(environment_profile) ==
  LET adjustment == Mul(Mul(temp_factor(environment_profile.T_amb, environment_profile.T_sky),
                            solar_factor(environment_profile.G_sun_total)),
                        wind_factor(environment_profile.wind_speed))
  IN  Max2(3000, Min2(adjustment, 15000))

\* window_emis / max(solar_abs, 0.01), line 131
SelectivityQ2(window_emis, solar_abs) == Div(window_emis, Max2(solar_abs, 100))

\* the dictionary with P_conv reported as the balance leaves it
NetCoolingConvectionUnfloored(cls, substrate, method, thickness, environment_profile) ==
  LET base == get_literature_performance(thickness)
      env_adjustment == calculate_environment_adjustment(environment_profile)
      adjusted_cooling == Mul(base[1], env_adjustment)
      adjusted_deltaT == Mul(base[2], env_adjustment)
      P_rad == Mul(adjusted_cooling, 25000)
      P_atm == Mul(P_rad, 4000)
      Result(window_emis, solar_abs) ==
        LET P_sun == Mul(environment_profile.G_sun_total * solar_abs, 8000)
            P_conv == P_rad - P_atm - P_sun - adjusted_cooling
        IN  [op |-> "calculate_net_cooling_literature_based",
             thickness |-> thickness, environment_profile |-> environment_profile,
             P_net |-> Max2(0, adjusted_cooling), delta_T |-> Max2(0, adjusted_deltaT),
             T_surface |-> (environment_profile.T_amb * S) - adjusted_deltaT,
             P_rad |-> P_rad, P_atm |-> P_atm, P_sun |-> P_sun,
             P_conv |-> P_conv,
             window_emissivity |-> window_emis, solar_absorptivity |-> solar_abs,
             selectivity |-> SelectivityQ2(window_emis, solar_abs),
             env_adjustment |-> env_adjustment]
  IN  CHOOSE r \in
        {Result(window_emis, solar_abs) :
           window_emis \in {calculate_band_emissivity(cls, substrate, method,
                                                      8 * WS, 13 * WS, thickness, BandPoints)},
           solar_abs \in {calculate_band_emissivity(cls, substrate, method,
                                                    30000, 250000, thickness, BandPoints)}} : TRUE

\* the dictionary with the atmospheric term taken as 0.4 of the net power
NetCoolingAtmosphereOfNet(cls, substrate, method, thickness, environment_profile) ==
  LET base == get_literature_performance(thickness)
      env_adjustment == calculate_environment_adjustment(environment_profile)
      adjusted_cooling == Mul(base[1], env_adjustment)
      adjusted_deltaT == Mul(base[2], env_adjustment)
      P_rad == Mul(adjusted_cooling, 25000)
      P_atm == Mul(adjusted_cooling, 4000)
      Result(window_emis, solar_abs) ==
        LET P_sun == Mul(environment_profile.G_sun_total * solar_abs, 8000)
            P_conv == P_rad - P_atm - P_sun - adjusted_cooling
        IN  [op |-> "calculate_net_cooling_literature_based",
             thickness |-> thickness, environment_profile |-> environment_profile,
             P_net |-> Max2(0, adjusted_cooling), delta_T |-> Max2(0, adjusted_deltaT),
             T_surface |-> (environment_profile.T_amb * S) - adjusted_deltaT,
             P_rad |-> P_rad, P_atm |-> P_atm, P_sun |-> P_sun,
             P_conv |-> Max2(0, P_conv),
             window_emissivity |-> window_emis, solar_absorptivity |-> solar_abs,
             selectivity |-> SelectivityQ2(window_emis, solar_abs),
             env_adjustment |-> env_adjustment]
  IN  CHOOSE r \in
        {Result(window_emis, solar_abs) :
           window_emis \in {calculate_band_emissivity(cls, substrate, method,
                                                      8 * WS, 13 * WS, thickness, BandPoints)},
           solar_abs \in {calculate_band_emissivity(cls, substrate, method,
                                                    30000, 250000, thickness, BandPoints)}} : TRUE

\* the dictionary returned for a pdms_model of class cls; each band average
\* is computed once and bound to its local, as the assignments do
calculate_net_cooling_literature_based(cls, substrate, method, thickness, environment_profile) ==
  LET base == get_literature_performance(thickness)
      env_adjustment == calculate_environment_adjustment(environment_profile)
      adjusted_cooling == Mul(base[1], env_adjustment)
      adjusted_deltaT == Mul(base[2], env_adjustment)
      P_rad == Mul(adjusted_cooling, 25000)
      P_atm == Mul(P_rad, 4000)
      Result(window_emis, solar_abs) ==
        LET P_sun == Mul(environment_profile.G_sun_total * solar_abs, 8000)
            P_conv == P_rad - P_atm - P_sun - adjusted_cooling
        IN  [op |-> "calculate_net_cooling_literature_based",
             thickness |-> thickness, environment_profile |-> environment_profile,
             P_net |-> Max2(0, adjusted_cooling), delta_T |-> Max2(0, adjusted_deltaT),
             T_surface |-> (environment_profile.T_amb * S) - adjusted_deltaT,
             P_rad |-> P_rad, P_atm |-> P_atm, P_sun |-> P_sun,
             P_conv |-> Max2(0, P_conv),
             window_emissivity |-> window_emis, solar_absorptivity |-> solar_abs,
             selectivity |-> SelectivityQ2(window_emis, solar_abs),
             env_adjustment |-> env_adjustment]
  IN  CHOOSE r \in
        {Result(window_emis, solar_abs) :
           window_emis \in {calculate_band_emissivity(cls, substrate, method,
                                                      8 * WS, 13 * WS, thickness, BandPoints)},
           solar_abs \in {calculate_band_emissivity(cls, substrate, method,
                                                    30000, 250000, thickness, BandPoints)}} : TRUE

Env(T_amb, T_sky, G_sun_total, wind_speed) ==
  [T_amb |-> T_amb, T_sky |-> T_sky, G_sun_total |-> G_sun_total, wind_speed |-> wind_speed]

\* self.environment_profiles
environment_profiles ==
  {Env(300, 275, 800, 10000), Env(310, 265, 1000, 5000), Env(305, 285, 900, 15000)}

ReferenceProfile == Env(T_amb_ref, T_sky_ref, G_sun_ref, wind_ref)

\* caller-built profiles: hot against a cold sky, nearly no temperature
\* difference, sky warmer than ambient, no sun, strong sun and wind
OtherProfiles ==
  {Env(400, 100, 800, 10000), Env(276, 275, 800, 10000), Env(270, 275, 800, 10000),
   Env(300, 275, 0, 10000), Env(300, 275, 3000, 250000), Env(320, 275, 600, 0)}

CoolingThicknesses == {-200000, 0, 5000, 100000, 300000}

CalculateEnvironmentAdjustment(environment_profile) ==
  /\ pc = "idle"
  /\ ret' = [op |-> "calculate_environment_adjustment",
             environment_profile |-> environment_profile,
             value |-> calculate_environment_adjustment(environment_profile)]
  /\ pc' = "returned"
  /\ UNCHANGED <<config, args, previous, locals>>

\* an evaluator that remembers the optimum of an earlier thickness
\* optimization and evaluates that thickness instead of its argument
CalculateNetCoolingAtPreviousOptimum(thickness, environment_profile) ==
  /\ pc = "idle"
  /\ \E evaluated \in {IF previous.op = "thickness_optimization"
                        THEN previous.optimal_thickness ELSE thickness} :
       ret' = [calculate_net_cooling_literature_based(model_class, substrate_type,
                  correction_method, evaluated, environment_profile)
               EXCEPT !.thickness = thickness]
  /\ pc' = "returned"
  /\ UNCHANGED <<config, args, previous, locals>>

CalculateNetCooling(thickness, environment_profile) ==
  /\ pc = "idle"
  /\ ret' = calculate_net_cooling_literature_based(model_class, substrate_type,
               correction_method, thickness, environment_profile)
  /\ pc' = "returned"
  /\ UNCHANGED <<config, args, previous, locals>>

NextCooling ==
  \/ \E environment_profile \in environment_profiles \cup OtherProfiles :
       CalculateEnvironmentAdjustment(environment_profile)
  \/ \E thickness \in CoolingThicknesses,
        environment_profile \in environment_profiles \cup {Env(400, 100, 800, 10000)} :
       CalculateNetCooling(thickness, environment_profile)
  \/ Return

\* Q2.py builds its evaluator on a LiteratureCalibratedPDMSModel
InitCooling == Init /\ model_class = "LiteratureCalibratedPDMSModel"

SpecCooling == InitCooling /\ [][NextCooling]_vars

\* C7: the environment adjustment is within [0.3, 1.5] for every profile;
\* (400, 100, 800, 1) gives 1.5 and (276, 275, 800, 1) gives 0.3
C7_AdjustmentClamped ==
  ret.op = "calculate_environment_adjustment" =>
    /\ 3000 <= ret.value /\ ret.value <= 15000
    /\ ret.environment_profile = Env(400, 100, 800, 10000) => ret.value = 15000
    /\ ret.environment_profile = Env(276, 275, 800, 10000) => ret.value = 3000

C7_Witness ==
  /\ ret.op = "calculate_environment_adjustment"
  /\ ret.environment_profile.T_amb <= ret.environment_profile.T_sky
  /\ temp_factor(ret.environment_profile.T_amb, ret.environment_profile.T_sky) < 0
  /\ ret.value = 3000

\* C9: for the reference profile the adjustment is 1.0 and P_net is the
\* literature base cooling of the thickness; 93 and 8.2 at 10 um
C9_ReferenceProfile ==
  LET e == ret.environment_profile
  IN  /\ (ret.op = "calculate_environment_adjustment" /\ e = ReferenceProfile) =>
           /\ temp_factor(e.T_amb, e.T_sky) = S
           /\ solar_factor(e.G_sun_total) = S
           /\ wind_factor(e.wind_speed) = S
           /\ ret.value = S
      /\ (ret.op = "calculate_net_cooling_literature_based" /\ e = ReferenceProfile) =>
           /\ ret.env_adjustment = S
           /\ ret.P_net = get_literature_performance(ret.thickness)[1]
           /\ ret.thickness = 100000 => (ret.P_net = 930000 /\ ret.delta_T = 82000)

C9_Witness ==
  /\ ret.op = "calculate_net_cooling_literature_based"
  /\ ret.environment_profile = ReferenceProfile
  /\ ret.thickness = 100000
  /\ ret.P_net = 930000
  /\ ret.delta_T = 82000

\* the six reported powers and temperature drop are >= 0
NoNegativePower ==
  /\ ret.P_net >= 0
  /\ ret.delta_T >= 0
  /\ ret.P_rad >= 0
  /\ ret.P_atm >= 0
  /\ ret.P_sun >= 0
  /\ ret.P_conv >= 0

\* C13 as stated: for every thickness and every profile with solar
\* irradiance >= 0 the dictionary of calculate_net_cooling_literature_based
\* reports no negative P_net, delta_T, P_rad, P_atm, P_sun or P_conv
C13_NoNegativePowerEveryThickness ==
  (/\ ret.op = "calculate_net_cooling_literature_based"
   /\ ret.environment_profile.G_sun_total >= 0)
  => NoNegativePower

\* C13 amended: the same for every thickness >= 0
C13_NoNegativePower ==
  (/\ ret.op = "calculate_net_cooling_literature_based"
   /\ ret.environment_profile.G_sun_total >= 0
   /\ ret.thickness >= 0)
  => NoNegativePower

\* the floor of P_conv acted: the balance 0.5 * adjusted_cooling - P_sun
\* is negative
C13_Witness ==
  /\ ret.op = "calculate_net_cooling_literature_based"
  /\ ret.thickness >= 0
  /\ ret.P_conv = 0
  /\ ret.P_rad - ret.P_atm - ret.P_sun - ret.P_net < 0

(***************************************************************************)
(* evaluator.get_literature_performance(thickness)                         *)
(***************************************************************************)
\* below, at, between and above the anchors 1, 5, 10, 20, 50 um
LiteratureThicknesses ==
  {-200000, 0, 10000, 10001, 20000, 30000, 50000, 75000, 100000, 150000,
   200000, 350000, 499999, 500000, 500001, 1000000}

GetLiteraturePerformance(thickness) ==
  /\ pc = "idle"
  /\ ret' = [op |-> "get_literature_performance", thickness |-> thickness,
             value |-> get_literature_performance(thickness)]
  /\ pc' = "returned"
  /\ UNCHANGED <<config, args, previous, locals>>

NextLiterature ==
  \/ \E thickness \in LiteratureThicknesses : GetLiteraturePerformance(thickness)
  \/ Return

SpecLiterature == InitCooling /\ [][NextLiterature]_vars

\* C14: get_literature_performance returns (45, 4.5) up to 1 um, (65, 5.8)
\* from 50 um, the anchor's own pair at 5, 10 and 20 um, and in between the
\* linear interpolation of the two bracketing anchors
C14_LiteratureInterpolation ==
  ret.op = "get_literature_performance" =>
    LET t == ret.thickness
        v == ret.value
        Between(x, a, b) == Min2(a, b) <= x /\ x <= Max2(a, b)
    IN  /\ t <= 10000 => v = <<450000, 45000>>
        /\ t >= 500000 => v = <<650000, 58000>>
        /\ t = 50000 => v = <<780000, 72000>>
        /\ t = 100000 => v = <<930000, 82000>>
        /\ t = 200000 => v = <<850000, 75000>>
        /\ t = 20000 => v = <<532500, 51750>>
        /\ t = 30000 => v = <<615000, 58500>>
        /\ t = 75000 => v = <<855000, 77000>>
        /\ t = 150000 => v = <<890000, 78500>>
        /\ t = 350000 => v = <<750000, 66500>>
        /\ (10000 < t /\ t < 50000) =>
             (Between(v[1], 450000, 780000) /\ Between(v[2], 45000, 72000))
        /\ (50000 < t /\ t < 100000) =>
             (Between(v[1], 780000, 930000) /\ Between(v[2], 72000, 82000))
        /\ (100000 < t /\ t < 200000) =>
             (Between(v[1], 930000, 850000) /\ Between(v[2], 82000, 75000))
        /\ (200000 < t /\ t < 500000) =>
             (Between(v[1], 850000, 650000) /\ Between(v[2], 75000, 58000))

C14_Witness ==
  /\ ret.op = "get_literature_performance"
  /\ ret.thickness = 150000
  /\ ret.value = <<890000, 78500>>

\* the component powers as C23 gives them: P_rad = 2.5 * adjusted_cooling,
\* P_atm = 0.4 * P_rad, P_sun = 0.8 * G_sun * solar_absorptivity, with
\* adjusted_cooling the literature power times the environment adjustment
ComponentPowers ==
  /\ ret.P_net = Mul(get_literature_performance(ret.thickness)[1], ret.env_adjustment)
  /\ ret.P_rad = Mul(ret.P_net, 25000)
  /\ ret.P_atm = Mul(ret.P_rad, 4000)
  /\ ret.P_sun = Mul(ret.environment_profile.G_sun_total * ret.solar_absorptivity, 8000)

\* C23 as stated: for every thickness and environment the reported powers
\* satisfy P_rad - P_atm - P_sun - P_conv = P_net, also when P_conv has
\* been floored at 0
C23_EnergyBalanceAlways ==
  (pc = "returned" /\ ret.op = "calculate_net_cooling_literature_based") =>
    /\ ComponentPowers
    /\ ret.P_rad - ret.P_atm - ret.P_sun - ret.P_conv = ret.P_net

\* C23 amended: the reported powers satisfy the balance whenever
\* P_rad - P_atm - P_sun - P_net >= 0, the case in which P_conv is not
\* floored; otherwise P_conv is 0 and P_rad - P_atm - P_sun - P_conv is
\* below P_net
C23_EnergyBalance ==
  (pc = "returned" /\ ret.op = "calculate_net_cooling_literature_based") =>
    /\ ComponentPowers
    /\ ret.P_conv = Max2(0, ret.P_rad - ret.P_atm - ret.P_sun - ret.P_net)
    /\ (ret.P_rad - ret.P_atm - ret.P_sun - ret.P_net >= 0) =>
         ret.P_rad - ret.P_atm - ret.P_sun - ret.P_conv = ret.P_net
    /\ (ret.P_rad - ret.P_atm - ret.P_sun - ret.P_net < 0) =>
         /\ ret.P_conv = 0
         /\ ret.P_rad - ret.P_atm - ret.P_sun - ret.P_conv < ret.P_net

\* a 10 um film under the strong-sun profile of the evaluator: the balance
\* leaves a positive P_conv and the four components add up to P_net
C23_Witness ==
  /\ pc = "returned"
  /\ ret.op = "calculate_net_cooling_literature_based"
  /\ ret.thickness = 10 * S
  /\ ret.P_conv > 0
  /\ ret.P_sun > 0
  /\ ret.P_net > 0
  /\ ret.P_rad - ret.P_atm - ret.P_sun - ret.P_conv = ret.P_net

(***************************************************************************)
(* Q3_base_reality.py  PhysicsBasedMultiLayerDesign                        *)
(* a structure is a sequence of <<material, thickness in nm>>;             *)
(* reflectivities, emissivities, powers and costs in 1/S                   *)
(***************************************************************************)
\* self.material_properties
material_properties ==
  [m \in {"Ag", "Al", "SiO2", "TiO2", "PDMS"} |->
     CASE m = "Ag" -> [solar_reflectivity |-> 9600, window_reflectivity |-> 9500, cost |-> 8000]
       [] m = "Al" -> [solar_reflectivity |-> 9200, window_reflectivity |-> 9000, cost |-> 3000]
       [] m = "SiO2" -> [solar_reflectivity |-> 400, window_reflectivity |-> 1000, cost |-> 1000]
       [] m = "TiO2" -> [solar_reflectivity |-> 1000, window_reflectivity |-> 1500, cost |-> 4000]
       [] m = "PDMS" -> [solar_reflectivity |-> 500, window_reflectivity |-> 1000, cost |-> 2500]]

\* layer index -> 'reflector' | 'emitter' | 'dielectric' (index 1 is layer 0)
analyze_layer_functions(structure) ==
  [l \in 1..Len(structure) |->
     IF structure[l][1] \in {"Ag", "Al"} THEN "reflector"
     ELSE IF structure[l][1] = "PDMS" THEN "emitter"
     ELSE "dielectric"]

\* dielectric_index is a position of the sequence, 0 standing for index -1
calculate_dielectric_enhancement(structure, dielectric_index) ==
  IF dielectric_index < 1 \/ dielectric_index > Len(structure) THEN S
  ELSE LET material == structure[dielectric_index][1]
           thickness == structure[dielectric_index][2]
       IN  IF material = "SiO2"
           THEN (IF 200 <= thickness /\ thickness <= 300 THEN 10800 ELSE 10300)
           ELSE IF material = "TiO2"
           THEN (IF 100 <= thickness /\ thickness <= 200 THEN 11200 ELSE 10500)
           ELSE S

RECURSIVE FirstWith(_, _, _)
\* the first layer whose function is f, 0 when there is none
FirstWith(layer_functions, f, l) ==
  IF l > Len(layer_functions) THEN 0
  ELSE IF layer_functions[l] = f THEN l
  ELSE FirstWith(layer_functions, f, l + 1)

calculate_solar_reflectivity(structure, layer_functions) ==
  LET l == FirstWith(layer_functions, "reflector", 1)
  IN  IF l = 0 THEN 1500
      ELSE LET base_reflectivity == material_properties[structure[l][1]].solar_reflectivity
           IN  IF l > 1 /\ layer_functions[l - 1] = "dielectric"
               THEN Min2(9800, Mul(base_reflectivity,
                                   calculate_dielectric_enhancement(structure, l - 1)))
               ELSE Min2(9800, base_reflectivity)

\* n * thickness_nm / 1000, in um
get_optical_thickness(material, thickness_nm) ==
  LET n == CASE material = "SiO2" -> 14500
             [] material = "TiO2" -> 24000
             [] material = "PDMS" -> 14000
             [] OTHER -> 15000
  IN  MulDiv(n, thickness_nm, 1000)

RECURSIVE QuarterWaveLayers(_, _)
\* the number of SiO2/TiO2 layers with 0.8 <= optical_thickness / 2.5 <= 1.2
QuarterWaveLayers(structure, l) ==
  IF l > Len(structure) THEN 0
  ELSE LET quarter_wave_condition ==
             MulDiv(get_optical_thickness(structure[l][1], structure[l][2]), 10, 25)
       IN  (IF /\ structure[l][1] \in {"SiO2", "TiO2"}
               /\ 8000 <= quarter_wave_condition
               /\ quarter_wave_condition <= 12000
            THEN 1 ELSE 0) + QuarterWaveLayers(structure, l + 1)

calculate_interference_enhancement(structure) ==
  LET dielectric_layers ==
        Cardinality({l \in 1..Len(structure) : structure[l][1] \in {"SiO2", "TiO2"}})
  IN  IF dielectric_layers > 0
      THEN Min2(S + (1500 * dielectric_layers) + (1000 * QuarterWaveLayers(structure, 1)),
                15000)
      ELSE S

calculate_window_emissivity(structure, layer_functions) ==
  LET l == FirstWith(layer_functions, "emitter", 1)
      base_emissivity ==
        IF l = 0 THEN 1000
        ELSE LET thickness == structure[l][2]
                 thickness_factor ==
                   IF 8000 <= thickness /\ thickness <= 12000 THEN S
                   ELSE IF thickness < 8000 THEN MulDiv(thickness, S, 8000)
                   ELSE S - MulDiv(thickness - 12000, S, 50000)
             IN  Mul(S - material_properties[structure[l][1]].window_reflectivity,
                     thickness_factor)
  IN  Min2(9500, Mul(base_emissivity, calculate_interference_enhancement(structure)))

\* literature_enhancement.get(num_layers, 1.0)
literature_enhancement(num_layers) ==
  CASE num_layers = 1 -> 10000
    [] num_layers = 2 -> 11500
    [] num_layers = 3 -> 13500
    [] num_layers = 4 -> 14500
    [] num_layers = 5 -> 15500
    [] OTHER -> 10000

\* self.performance_baseline (93) taken for base_power
EstimateCoolingPowerBaseline(structure) ==
  Mul(930000, literature_enhancement(Len(structure)))

\* base_power * enhancement, base_power = 101.1
estimate_cooling_power(structure) ==
  Mul(1011000, literature_enhancement(Len(structure)))

\* window_emissivity / max(solar_absorptivity, 0.01), line 55
SelectivityQ3(window_emissivity, solar_absorptivity) ==
  Div(window_emissivity, Max2(solar_absorptivity, 100))

calculate_structure_performance(structure) ==
  LET layer_functions == analyze_layer_functions(structure)
      solar_reflectivity == calculate_solar_reflectivity(structure, layer_functions)
      window_emissivity == calculate_window_emissivity(structure, layer_functions)
      solar_absorptivity == Max2(100, S - solar_reflectivity)
  IN  [performance |-> estimate_cooling_power(structure),
       solar_reflectivity |-> solar_reflectivity,
       window_emissivity |-> window_emissivity,
       solar_absorptivity |-> solar_absorptivity,
       selectivity |-> SelectivityQ3(window_emissivity, solar_absorptivity),
       layer_functions |-> layer_functions]

\* material_properties[material] raises KeyError for any other material
KnownMaterials(structure) ==
  \A l \in 1..Len(structure) : structure[l][1] \in DOMAIN material_properties

RECURSIVE total_cost(_, _)
\* the sum of material_cost * thickness / 10000.0 over the layers from l on
total_cost(structure, l) ==
  IF l > Len(structure) THEN 0
  ELSE Mul(material_properties[structure[l][1]].cost, structure[l][2])
         + total_cost(structure, l + 1)

calculate_structure_cost(structure) ==
  total_cost(structure, 1) + ((10 + (2 * Len(structure))) * S)

(***************************************************************************)
(* Q3_base_reality.py  LayerNumberOptimizer                                *)
(***************************************************************************)
\* self.typical_structures, keys 1..5
typical_structures ==
  << <<<<"PDMS", 11000>>>>,
     <<<<"Ag", 100>>, <<"PDMS", 11000>>>>,
     <<<<"Ag", 100>>, <<"SiO2", 250>>, <<"PDMS", 11000>>>>,
     <<<<"Ag", 100>>, <<"SiO2", 200>>, <<"TiO2", 150>>, <<"PDMS", 11000>>>>,
     <<<<"Ag", 100>>, <<"SiO2", 150>>, <<"TiO2", 100>>, <<"SiO2", 150>>, <<"PDMS", 8000>>>> >>

\* the dictionary appended for a structure, lines 264-285
StructureResult(num_layers, structure) ==
  LET performance_data == calculate_structure_performance(structure)
      cost == calculate_structure_cost(structure)
  IN  [num_layers |-> num_layers,
       structure |-> structure,
       performance |-> performance_data.performance,
       cost |-> cost,
       cost_effectiveness |-> Div(performance_data.performance, cost),
       optical_performance |->
         [solar_reflectivity |-> performance_data.solar_reflectivity,
          window_emissivity |-> performance_data.window_emissivity,
          solar_absorptivity |-> performance_data.solar_absorptivity,
          selectivity |-> performance_data.selectivity]]

\* structure = self.typical_structures[num_layers], line 262
LayerResult(num_layers) == StructureResult(num_layers, typical_structures[num_layers])

MaxLayers == 6

\* analyze_layer_impact(max_layers): results = []
StartLayerAnalysis(max_layers) ==
  /\ pc = "idle"
  /\ args' = [op |-> "analyze_layer_impact", max_layers |-> max_layers]
  /\ results' = <<>>
  /\ i' = 1
  /\ pc' = "analyze"
  /\ UNCHANGED <<config, ret, previous, thicknesses, window_emissivities,
                 solar_emissivities, performance_scores>>

\* one iteration of for num_layers in range(1, max_layers + 1)
LayerStep ==
  /\ pc = "analyze"
  /\ i <= args.max_layers
  /\ i \in DOMAIN typical_structures
  /\ results' = Append(results, LayerResult(i))
  /\ i' = i + 1
  /\ UNCHANGED <<config, pc, args, ret, previous, thicknesses, window_emissivities,
                 solar_emissivities, performance_scores>>

\* self.typical_structures[num_layers] for a missing key
LayerStepKeyError ==
  /\ pc = "analyze"
  /\ i <= args.max_layers
  /\ i \notin DOMAIN typical_structures
  /\ ret' = [op |-> "analyze_layer_impact", max_layers |-> args.max_layers,
             raised |-> "KeyError"]
  /\ pc' = "raised"
  /\ args' = NoRet
  /\ results' = <<>>
  /\ i' = 0
  /\ UNCHANGED <<config, previous, thicknesses, window_emissivities,
                 solar_emissivities, performance_scores>>

\* return results
FinishLayerAnalysis ==
  /\ pc = "analyze"
  /\ i > args.max_layers
  /\ ret' = [op |-> "analyze_layer_impact", max_layers |-> args.max_layers,
             results |-> results]
  /\ pc' = "returned"
  /\ args' = NoRet
  /\ results' = <<>>
  /\ i' = 0
  /\ UNCHANGED <<config, previous, thicknesses, window_emissivities,
                 solar_emissivities, performance_scores>>

RECURSIVE LastBest(_, _, _)
\* the last entry holding the maximum: sorted ascending, last element taken
LastBest(rs, l, best) ==
  IF l > Len(rs) THEN best
  ELSE LastBest(rs, l + 1,
                IF rs[l].cost_effectiveness >= rs[best].cost_effectiveness THEN l ELSE best)

RECURSIVE FirstBest(_, _, _)
\* sorted(results, key=cost_effectiveness, reverse=True)[0]: the sort is
\* stable, the first entry holding the maximum comes first
FirstBest(rs, l, best) ==
  IF l > Len(rs) THEN best
  ELSE FirstBest(rs, l + 1,
                 IF rs[l].cost_effectiveness > rs[best].cost_effectiveness THEN l ELSE best)

\* the entry of the highest performance instead of the highest
\* cost_effectiveness
find_highest_performance(rs) ==
  rs[CHOOSE l \in 1..Len(rs) : \A m \in 1..Len(rs) : rs[l].performance >= rs[m].performance]

find_optimal_structure(rs) == rs[FirstBest(rs, 2, 1)]

Reverse(s) == [l \in 1..Len(s) |-> s[Len(s) + 1 - l]]

\* two three-layer stacks of the same layers in a different order: equal
\* performance, cost and cost_effectiveness
TiedResults ==
  <<LayerResult(3),
    StructureResult(3, <<<<"SiO2", 250>>, <<"Ag", 100>>, <<"PDMS", 11000>>>>)>>

\* the result lists handed to find_optimal_structure
ResultLists ==
  LET all == [l \in 1..Len(typical_structures) |-> LayerResult(l)]
  IN  {SubSeq(all, a, b) : a \in {1, 2}, b \in 0..Len(typical_structures)}
        \cup {Reverse(SubSeq(all, 1, b)) : b \in 2..Len(typical_structures)}
        \cup {TiedResults, Reverse(TiedResults), <<LayerResult(2)>> \o TiedResults}

FindOptimalStructure(rs) ==
  /\ pc = "idle"
  /\ IF rs = <<>>
     THEN /\ ret' = [op |-> "find_optimal_structure", raised |-> "IndexError"]
          /\ pc' = "raised"
     ELSE /\ ret' = [op |-> "find_optimal_structure", results |-> rs,
                     best_result |-> find_optimal_structure(rs)]
          /\ pc' = "returned"
  /\ UNCHANGED <<config, args, previous, locals>>

\* layers the callers' structures are built from
Layers ==
  {<<"Ag", 100>>, <<"Al", 100>>, <<"SiO2", 250>>, <<"SiO2", 1700>>, <<"TiO2", 150>>,
   <<"TiO2", 600>>, <<"PDMS", 11000>>, <<"PDMS", 4000>>, <<"PDMS", 20000>>,
   <<"PDMS", 70000>>, <<"Si3N4", 500>>}

MaxStack == 2

Stacks(n) == UNION {[1..m -> Layers] : m \in 0..n}

Structures ==
  Stacks(MaxStack) \cup {typical_structures[l] : l \in 1..Len(typical_structures)}
    \cup {typical_structures[5] \o <<<<"PDMS", 11000>>>>,
          <<<<"SiO2", 250>>, <<"Ag", 100>>, <<"PDMS", 11000>>>>,
          <<<<"TiO2", 150>>, <<"Al", 100>>, <<"PDMS", 70000>>>>}

CalculateStructurePerformance(structure) ==
  /\ pc = "idle"
  /\ ret' = [op |-> "calculate_structure_performance", structure |-> structure,
             value |-> calculate_structure_performance(structure)]
  /\ pc' = "returned"
  /\ UNCHANGED <<config, args, previous, locals>>

CalculateStructureCost(structure) ==
  /\ pc = "idle"
  /\ IF KnownMaterials(structure)
     THEN /\ ret' = [op |-> "calculate_structure_cost", structure |-> structure,
                     value |-> calculate_structure_cost(structure)]
          /\ pc' = "returned"
     ELSE /\ ret' = [op |-> "calculate_structure_cost", structure |-> structure,
                     raised |-> "KeyError"]
          /\ pc' = "raised"
  /\ UNCHANGED <<config, args, previous, locals>>

NextLayers ==
  \/ \E structure \in Structures : CalculateStructurePerformance(structure)
  \/ \E structure \in Structures : CalculateStructureCost(structure)
  \/ \E max_layers \in 0..MaxLayers : StartLayerAnalysis(max_layers)
  \/ LayerStep
  \/ LayerStepKeyError
  \/ FinishLayerAnalysis
  \/ \E rs \in ResultLists : FindOptimalStructure(rs)
  \/ Return

\* Q3_base_reality.py constructs no PDMS model
InitLayers ==
  /\ Init
  /\ model_class = "PDMSFilmModel"
  /\ substrate_type = "silicon"

SpecLayers == InitLayers /\ [][NextLayers]_vars

\* C10: every catalogue stack of L layers is reported with performance
\* 101.1 times the factor of L (1.00, 1.15, 1.35, 1.45, 1.55): 136.485 for
\* the 3-layer stack and 101.1 for the 1-layer stack
C10_CataloguePerformance ==
  (ret.op = "analyze_layer_impact" /\ pc = "returned") =>
    LET factors == <<10000, 11500, 13500, 14500, 15500>>
    IN  \A l \in 1..Len(ret.results) :
      /\ ret.results[l].num_layers = l
      /\ Len(ret.results[l].structure) = l
      /\ ret.results[l].performance * 10 = 1011 * factors[l]
      /\ l = 3 => ret.results[l].performance = 1364850
      /\ l = 1 => ret.results[l].performance = 1011000

C10_Witness ==
  /\ ret.op = "analyze_layer_impact"
  /\ pc = "returned"
  /\ Len(ret.results) = 5
  /\ ret.results[3].performance = 1364850
  /\ ret.results[5].performance = 1567050

\* unit cost * thickness_nm / 10000 of layer l of the structure, 0 beyond
\* its last layer; unit costs Ag 0.8, Al 0.3, SiO2 0.1, TiO2 0.4, PDMS 0.25
LayerCost(structure, l) ==
  IF l > Len(structure) THEN 0
  ELSE LET unit == CASE structure[l][1] = "Ag" -> 8000
                     [] structure[l][1] = "Al" -> 3000
                     [] structure[l][1] = "SiO2" -> 1000
                     [] structure[l][1] = "TiO2" -> 4000
                     [] structure[l][1] = "PDMS" -> 2500
       IN  (unit * structure[l][2]) \div S

\* the sum of the layer costs + 10 + 2 * (number of layers), up to 6 layers
StackCost(structure) ==
  LayerCost(structure, 1) + LayerCost(structure, 2) + LayerCost(structure, 3)
    + LayerCost(structure, 4) + LayerCost(structure, 5) + LayerCost(structure, 6)
    + ((10 + (2 * Len(structure))) * S)

\* C17: find_optimal_structure returns the first evaluated stack whose
\* cost_effectiveness = performance / cost no other evaluated stack exceeds;
\* the cost is the sum over the layers of unit cost * thickness_nm / 10000
\* plus 10 + 2 * (number of layers), and is strictly positive
C17_FirstBestCostEffectiveness ==
  /\ (ret.op = "find_optimal_structure" /\ pc = "returned") =>
       /\ \A l \in 1..Len(ret.results) :
            /\ ret.results[l].cost = StackCost(ret.results[l].structure)
            /\ ret.results[l].cost > 0
            /\ ret.results[l].cost_effectiveness
                 = Div(ret.results[l].performance, ret.results[l].cost)
       /\ \E b \in 1..Len(ret.results) :
            /\ ret.best_result = ret.results[b]
            /\ \A l \in 1..Len(ret.results) :
                 ret.results[l].cost_effectiveness <= ret.results[b].cost_effectiveness
            /\ \A l \in 1..(b - 1) :
                 ret.results[l].cost_effectiveness < ret.results[b].cost_effectiveness
  /\ (ret.op = "calculate_structure_cost" /\ pc = "returned") =>
       /\ ret.value = StackCost(ret.structure)
       /\ ret.value > 0
  /\ (ret.op = "analyze_layer_impact" /\ pc = "returned") =>
       \A l \in 1..Len(ret.results) :
         /\ ret.results[l].cost = StackCost(ret.results[l].structure)
         /\ ret.results[l].cost_effectiveness
              = Div(ret.results[l].performance, ret.results[l].cost)

\* two different stacks with the same ratio, the first returned
C17_Witness ==
  /\ ret.op = "find_optimal_structure"
  /\ pc = "returned"
  /\ Len(ret.results) = 3
  /\ ret.results[2] # ret.results[3]
  /\ ret.results[2].cost_effectiveness = ret.results[3].cost_effectiveness
  /\ ret.results[1].cost_effectiveness < ret.results[2].cost_effectiveness
  /\ ret.best_result = ret.results[2]

(***************************************************************************)
(* np.sqrt and np.log in fixed point                                       *)
(***************************************************************************)
RECURSIVE ISqrt(_, _, _)
\* the largest r in lo..hi with r * r <= v
ISqrt(v, lo, hi) ==
  IF lo = hi THEN lo
  ELSE IF ((lo + hi + 1) \div 2) * ((lo + hi + 1) \div 2) <= v
       THEN ISqrt(v, (lo + hi + 1) \div 2, hi)
       ELSE ISqrt(v, lo, ((lo + hi + 1) \div 2) - 1)

\* sqrt(x / S) * S for 0 <= x <= 20 * S
Sqrt(x) == ISqrt(x * S, 0, 46340)

Ln2 == 6931

\* log(m) for 1 <= m < 2 from 2 * atanh(z), z = (m - 1) / (m + 1)
LnSeries(z, z2) ==
  2 * (z + (Mul(z, z2) \div 3) + (Mul(Mul(z, z2), z2) \div 5)
         + (Mul(Mul(Mul(z, z2), z2), z2) \div 7))

LnMantissa(z) == LnSeries(z, Mul(z, z))

RECURSIVE Ln(_)
\* log(x / S) * S, defined for x > 0 only
Ln(x) ==
  CASE x >= 2 * S -> Ln2 + Ln(x \div 2)
    [] x >= S /\ x < 2 * S -> LnMantissa(Div(x - S, x + S))
    [] x > 0 /\ x < S -> Ln(2 * x) - Ln2

(***************************************************************************)
(* Q3_theory_process.py  ImprovedTheoreticalExplorer                       *)
(* optical parameters, reflectivities, emissivities, powers in 1/S;        *)
(* match scores in 1/(10 * S)                                              *)
(***************************************************************************)
\* self.baseline_performance
baseline_performance == 1011000

calculate_interference_enhancement_theoretical(n_diel) ==
  IF n_diel < 14000 THEN S
  ELSE Min2(15000, S + Mul(1500, n_diel - 14000)
                     + (IF 18000 <= n_diel /\ n_diel <= 22000 THEN 1000 ELSE 0))

\* base_reflectivity * (1 - 0.1 * abs(n_diel - sqrt(n_ref)) / sqrt(n_ref))
AntiReflection(base_reflectivity, n_diel, root) ==
  Mul(S - Mul(1000, Div(Abs(n_diel - root), root)), base_reflectivity)

calculate_solar_reflectivity_theoretical(n_ref, k_ref, n_diel) ==
  LET base_reflectivity ==
        IF k_ref > 0
        THEN S - Div(4 * n_ref, Mul(n_ref + S, n_ref + S) + Mul(k_ref, k_ref))
        ELSE Mul(Div(n_ref - S, n_ref + S), Abs(Div(n_ref - S, n_ref + S)))
      reflectivity ==
        IF n_diel > 14000 /\ k_ref > 0
        THEN AntiReflection(base_reflectivity, n_diel, Sqrt(n_ref))
        ELSE base_reflectivity
  IN  Min2(9800, Max2(1000, reflectivity))

calculate_window_emissivity_theoretical(n_emit, k_emit, n_diel) ==
  LET alpha == Mul(FourPi, k_emit) \div 10
      base_emissivity == IF alpha > 1000 THEN S - Exp(-(alpha * 10)) ELSE 3000
      interference_gain == calculate_interference_enhancement_theoretical(n_diel)
      enhanced_emissivity == Mul(base_emissivity, interference_gain)
  IN  Min2(9800, Max2(1000, enhanced_emissivity))

\* the saturated branch with its parentheses lost:
\* baseline * (1.5 + 0.3 * performance_score - 0.5)
ScaleSaturationUnparenthesised(performance_score) ==
  IF performance_score <= 5000
  THEN Mul(baseline_performance, S + performance_score)
  ELSE Mul(baseline_performance, (15000 + Mul(3000, performance_score)) - 5000)

\* lines 84-89: the linear and the saturated scaling of the score
ScaleToCoolingPower(performance_score) ==
  IF performance_score <= 5000
  THEN Mul(baseline_performance, S + performance_score)
  ELSE Mul(baseline_performance, 15000 + Mul(3000, performance_score - 5000))

\* lines 64-91 from the three optical figures: the locals and the value
CoolingEstimate(solar_reflectivity, window_emissivity, interference_enhancement) ==
  LET solar_absorptivity == Max2(100, S - solar_reflectivity)
      Scored(selectivity) ==
        LET performance_score == Mul(window_emissivity, 6000) + Mul(Ln(selectivity), 2500)
                                   + Mul(solar_reflectivity, 1500)
                                   + Mul(interference_enhancement, 1000)
            Scaled(cooling_power) ==
              [solar_reflectivity |-> solar_reflectivity,
               window_emissivity |-> window_emissivity,
               solar_absorptivity |-> solar_absorptivity,
               selectivity |-> selectivity,
               performance_score |-> performance_score,
               cooling_power |-> cooling_power,
               value |-> Max2(80 * S, Min2(500 * S, cooling_power))]
        IN  CHOOSE r \in {Scaled(c) : c \in {ScaleToCoolingPower(performance_score)}} : TRUE
  IN  CHOOSE r \in {Scored(s) : s \in {Div(window_emissivity, solar_absorptivity)}} : TRUE

\* optical_params = <<n_ref, k_ref, n_diel, k_diel, n_emit, k_emit>>;
\* the locals at the return statement and the returned value
estimate_cooling_from_optical_params(optical_params) ==
  CHOOSE r \in
    {CoolingEstimate(solar_reflectivity, window_emissivity, interference_enhancement) :
       solar_reflectivity \in
         {calculate_solar_reflectivity_theoretical(optical_params[1], optical_params[2],
                                                   optical_params[3])},
       window_emissivity \in
         {calculate_window_emissivity_theoretical(optical_params[5], optical_params[6],
                                                  optical_params[3])},
       interference_enhancement \in
         {calculate_interference_enhancement_theoretical(optical_params[3])}} : TRUE

\* estimate_combination_performance: performance_factors
performance_factors ==
  [reflector |-> [Ag |-> 11000, Au |-> 10800, Al |-> 10500],
   dielectric |-> [SiO2 |-> 10800, Al2O3 |-> 11200, TiO2 |-> 11500],
   emitter |-> [PDMS |-> 10000, PMMA |-> 9500, SiC |-> 12000]]

estimate_combination_performance(reflector, dielectric, emitter) ==
  LET base_power == 1011000
      enhancement == Mul(Mul(performance_factors.reflector[reflector],
                             performance_factors.dielectric[dielectric]),
                         performance_factors.emitter[emitter])
  IN  Mul(base_power, enhancement)

\* improved_material_matching: material_database
material_database ==
  [Ag |-> [n |-> 500, k |-> 80000, type |-> "reflector", solar_reflectivity |-> 9600],
   Al |-> [n |-> 15000, k |-> 60000, type |-> "reflector", solar_reflectivity |-> 9200],
   Au |-> [n |-> 2000, k |-> 70000, type |-> "reflector", solar_reflectivity |-> 9400],
   SiO2 |-> [n |-> 14500, k |-> 10, type |-> "dielectric", solar_reflectivity |-> 400],
   TiO2 |-> [n |-> 24000, k |-> 50, type |-> "dielectric", solar_reflectivity |-> 1000],
   Al2O3 |-> [n |-> 17600, k |-> 10, type |-> "dielectric", solar_reflectivity |-> 600],
   PDMS |-> [n |-> 14000, k |-> 1600, type |-> "emitter", solar_reflectivity |-> 500],
   PMMA |-> [n |-> 14900, k |-> 200, type |-> "emitter", solar_reflectivity |-> 400],
   SiC |-> [n |-> 26000, k |-> 2000, type |-> "emitter", solar_reflectivity |-> 2000]]

\* the weights 0.3, 0.7, 0.8, 0.2, 0.4, 0.6 in tenths: the score in 1/(10 * S)
calculate_improved_matching_score(ref_actual, diel_actual, emit_actual, ideal_params) ==
  LET ref_score == 3 * Abs(ref_actual.n - ideal_params[1])
                     + 7 * Abs(ref_actual.k - ideal_params[2])
      diel_score == 8 * Abs(diel_actual.n - ideal_params[3])
                      + 2 * Abs(diel_actual.k - ideal_params[4])
      emit_score == 4 * Abs(emit_actual.n - ideal_params[5])
                      + 6 * Abs(emit_actual.k - ideal_params[6])
  IN  ref_score + diel_score + emit_score

\* the three loops of improved_material_matching, in their order
Reflectors == <<"Ag", "Al", "Au">>
Dielectrics == <<"SiO2", "TiO2", "Al2O3">>
Emitters == <<"PDMS", "PMMA", "SiC">>

\* the record appended for one combination
Candidate(reflector, dielectric, emitter, ideal_params) ==
  [reflector |-> reflector,
   dielectric |-> dielectric,
   emitter |-> emitter,
   match_score |-> calculate_improved_matching_score(material_database[reflector],
                                                     material_database[dielectric],
                                                     material_database[emitter],
                                                     ideal_params),
   estimated_performance |-> estimate_combination_performance(reflector, dielectric, emitter),
   optical_properties |-> [reflector |-> material_database[reflector],
                           dielectric |-> material_database[dielectric],
                           emitter |-> material_database[emitter]]]

\* candidate_combinations before the sort
CandidateCombinations(ideal_params) ==
  [c \in 1..27 |-> Candidate(Reflectors[((c - 1) \div 9) + 1],
                             Dielectrics[(((c - 1) \div 3) % 3) + 1],
                             Emitters[((c - 1) % 3) + 1],
                             ideal_params)]

\* candidate_combinations.sort(key=..., reverse=True)
SortByMatchScoreDescending(candidate_combinations) ==
  LET Rank(j) ==
        Cardinality({d \in 1..Len(candidate_combinations) :
                       \/ candidate_combinations[d].match_score
                            > candidate_combinations[j].match_score
                       \/ /\ candidate_combinations[d].match_score
                              = candidate_combinations[j].match_score
                          /\ d < j}) + 1
      ranks == [j \in 1..Len(candidate_combinations) |-> Rank(j)]
  IN  [pos \in 1..Len(candidate_combinations) |->
         candidate_combinations[CHOOSE j \in 1..Len(candidate_combinations) : ranks[j] = pos]]

\* candidate_combinations.sort(key=lambda x: x['match_score']): the stable
\* sort puts an element after every smaller one and every earlier equal one
SortByMatchScore(candidate_combinations) ==
  LET Rank(j) ==
        Cardinality({d \in 1..Len(candidate_combinations) :
                       \/ candidate_combinations[d].match_score
                            < candidate_combinations[j].match_score
                       \/ /\ candidate_combinations[d].match_score
                              = candidate_combinations[j].match_score
                          /\ d < j}) + 1
      ranks == [j \in 1..Len(candidate_combinations) |-> Rank(j)]
  IN  [pos \in 1..Len(candidate_combinations) |->
         candidate_combinations[CHOOSE j \in 1..Len(candidate_combinations) : ranks[j] = pos]]

improved_material_matching(ideal_params) ==
  CHOOSE sorted \in {SortByMatchScore(candidate_combinations) :
                       candidate_combinations \in {CandidateCombinations(ideal_params)}} : TRUE

(***************************************************************************)
(* Calls of the theoretical explorer                                       *)
(***************************************************************************)
\* self.realistic_bounds
realistic_bounds ==
  <<<<500, 5000>>, <<30000, 120000>>, <<14000, 22000>>, <<0, 10>>, <<18000, 35000>>,
    <<100, 2000>>>>

\* six-tuples inside the box: its corners and interior values on both sides
\* of the absorption threshold of the emitter
OpticalParams ==
  {<<n_ref, k_ref, n_diel, k_diel, n_emit, k_emit>> :
     n_ref \in {500, 2000, 5000}, k_ref \in {30000, 80000, 120000},
     n_diel \in {14000, 18000, 20000, 22000}, k_diel \in {1, 10},
     n_emit \in {18000, 35000}, k_emit \in {100, 500, 800, 2000}}

\* ideal parameters: the values of real materials and values between them
IdealParams ==
  {<<n_ref, k_ref, n_diel, k_diel, n_emit, k_emit>> :
     n_ref \in {500, 2000, 5000}, k_ref \in {80000, 65000},
     n_diel \in {14500, 17600, 20800}, k_diel \in {10, 30},
     n_emit \in {26000, 20000, 18000}, k_emit \in {2000, 900}}

EstimateCoolingFromOpticalParams(optical_params) ==
  /\ pc = "idle"
  /\ pc' = "returned"
  /\ \E estimate \in {estimate_cooling_from_optical_params(optical_params)} :
       ret' = [op |-> "estimate_cooling_from_optical_params",
               optical_params |-> optical_params,
               solar_reflectivity |-> estimate.solar_reflectivity,
               window_emissivity |-> estimate.window_emissivity,
               solar_absorptivity |-> estimate.solar_absorptivity,
               selectivity |-> estimate.selectivity,
               performance_score |-> estimate.performance_score,
               cooling_power |-> estimate.cooling_power,
               value |-> estimate.value]
  /\ UNCHANGED <<config, args, previous, locals>>

ImprovedMaterialMatching(ideal_params) ==
  /\ pc = "idle"
  /\ pc' = "returned"
  /\ ret' = [op |-> "improved_material_matching",
             ideal_params |-> ideal_params,
             value |-> improved_material_matching(ideal_params)]
  /\ UNCHANGED <<config, args, previous, locals>>

NextTheory ==
  \/ \E optical_params \in OpticalParams : EstimateCoolingFromOpticalParams(optical_params)
  \/ \E ideal_params \in IdealParams : ImprovedMaterialMatching(ideal_params)
  \/ Return

SpecTheory == InitLayers /\ [][NextTheory]_vars

\* C18: for every six-tuple of optical parameters inside the box bounds of
\* the optimizer, estimate_cooling_from_optical_params is defined: the window
\* emissivity is at least 0.1 and the solar absorptivity at least 0.01, so
\* the selectivity handed to the logarithm is strictly positive; the returned
\* cooling power lies in [80, 500]; the linear regime (score <= 0.5) gives
\* 101.1 * (1 + score), at most 1.5 * 101.1, and the saturated regime gives
\* 101.1 * (1.5 + 0.3 * (score - 0.5)), at least 1.5 * 101.1, so the two
\* regimes agree at score 0.5
C18_EstimateDefinedAndBounded ==
  (pc = "returned" /\ ret.op = "estimate_cooling_from_optical_params") =>
    /\ \A b \in 1..6 : /\ ret.optical_params[b] >= realistic_bounds[b][1]
                       /\ ret.optical_params[b] <= realistic_bounds[b][2]
    /\ ret.window_emissivity >= 1000
    /\ ret.solar_absorptivity >= 100
    /\ ret.selectivity > 0
    /\ ret.value >= 80 * S
    /\ ret.value <= 500 * S
    /\ ret.value = Max2(80 * S, Min2(500 * S, ret.cooling_power))
    /\ (ret.performance_score <= 5000 =>
          /\ 10 * ret.cooling_power <= 1011 * (S + ret.performance_score)
          /\ 1011 * (S + ret.performance_score) < 10 * ret.cooling_power + 10
          /\ ret.cooling_power <= 1516500)
    /\ (ret.performance_score > 5000 =>
          /\ 10 * ret.cooling_power
               <= 1011 * (15000 + ((3 * (ret.performance_score - 5000)) \div 10))
          /\ 1011 * (15000 + ((3 * (ret.performance_score - 5000)) \div 10))
               < 10 * ret.cooling_power + 10
          /\ ret.cooling_power >= 1516500)

\* an estimate in the saturated regime, left unclamped
C18_Witness ==
  /\ pc = "returned"
  /\ ret.op = "estimate_cooling_from_optical_params"
  /\ ret.performance_score > 5000
  /\ ret.performance_score < 6500
  /\ ret.selectivity > S
  /\ ret.value = ret.cooling_power
  /\ ret.value >= 1516500
  /\ ret.value < 1560000

\* the weighted L1 distance of C19 in 1/(10 * S), the weights in tenths
WeightedL1(combination, ideal_params) ==
    3 * Abs(combination.optical_properties.reflector.n - ideal_params[1])
  + 7 * Abs(combination.optical_properties.reflector.k - ideal_params[2])
  + 8 * Abs(combination.optical_properties.dielectric.n - ideal_params[3])
  + 2 * Abs(combination.optical_properties.dielectric.k - ideal_params[4])
  + 4 * Abs(combination.optical_properties.emitter.n - ideal_params[5])
  + 6 * Abs(combination.optical_properties.emitter.k - ideal_params[6])

\* C19: improved_material_matching returns the 27 combinations of
\* {Ag, Al, Au} x {SiO2, TiO2, Al2O3} x {PDMS, PMMA, SiC}, each exactly once,
\* in non-decreasing order of match_score; match_score is the weighted L1
\* distance with weights 0.3, 0.7 (reflector n, k), 0.8, 0.2 (dielectric n, k)
\* and 0.4, 0.6 (emitter n, k); the first element has the minimum score and a
\* combination whose actual (n, k) values equal the ideal parameters scores 0
C19_MatchingSortedComplete ==
  (pc = "returned" /\ ret.op = "improved_material_matching") =>
    /\ Len(ret.value) = 27
    /\ {<<ret.value[c].reflector, ret.value[c].dielectric, ret.value[c].emitter>> :
          c \in 1..Len(ret.value)}
         = {"Ag", "Al", "Au"} \X {"SiO2", "TiO2", "Al2O3"} \X {"PDMS", "PMMA", "SiC"}
    /\ \A c \in 1..Len(ret.value), e \in 1..Len(ret.value) :
         (ret.value[c].reflector = ret.value[e].reflector
            /\ ret.value[c].dielectric = ret.value[e].dielectric
            /\ ret.value[c].emitter = ret.value[e].emitter) => c = e
    /\ \A c \in 1..(Len(ret.value) - 1) :
         ret.value[c].match_score <= ret.value[c + 1].match_score
    /\ \A c \in 1..Len(ret.value) :
         /\ ret.value[c].optical_properties.reflector = material_database[ret.value[c].reflector]
         /\ ret.value[c].optical_properties.dielectric = material_database[ret.value[c].dielectric]
         /\ ret.value[c].optical_properties.emitter = material_database[ret.value[c].emitter]
         /\ ret.value[c].match_score = WeightedL1(ret.value[c], ret.ideal_params)
         /\ ret.value[1].match_score <= ret.value[c].match_score
         /\ (/\ ret.value[c].optical_properties.reflector.n = ret.ideal_params[1]
             /\ ret.value[c].optical_properties.reflector.k = ret.ideal_params[2]
             /\ ret.value[c].optical_properties.dielectric.n = ret.ideal_params[3]
             /\ ret.value[c].optical_properties.dielectric.k = ret.ideal_params[4]
             /\ ret.value[c].optical_properties.emitter.n = ret.ideal_params[5]
             /\ ret.value[c].optical_properties.emitter.k = ret.ideal_params[6])
              => ret.value[c].match_score = 0

\* the ideal parameters are those of Ag / SiO2 / SiC: that combination comes
\* first with score 0 and the last combination is strictly worse
C19_Witness ==
  /\ pc = "returned"
  /\ ret.op = "improved_material_matching"
  /\ ret.ideal_params = <<500, 80000, 14500, 10, 26000, 2000>>
  /\ ret.value[1].reflector = "Ag"
  /\ ret.value[1].dielectric = "SiO2"
  /\ ret.value[1].emitter = "SiC"
  /\ ret.value[1].match_score = 0
  /\ ret.value[2].match_score > 0
  /\ ret.value[27].match_score > ret.value[2].match_score

\* C20: with correction method "literature", for every substrate, every
\* wavelength of the atmospheric window and every thickness >= 3 um the
\* corrected emissivity lies inside the literature target range,
\* [0.85, 0.92] for a wavelength <= 10 um and [0.88, 0.95] above; in the
\* solar band the corrected value is 0.9 * base, elsewhere the base value
C20_LiteratureTargetRange ==
  (/\ pc = "returned"
   /\ ret.op = "calculate_emissivity"
   /\ model_class = "CorrectedPDMSModel"
   /\ correction_method = "literature") =>
    /\ (is_window_band(ret.wavelength) /\ ret.thickness >= 3 * S) =>
         IF ret.wavelength <= 10 * WS
         THEN ret.value >= 8500 /\ ret.value <= 9200
         ELSE ret.value >= 8800 /\ ret.value <= 9500
    /\ (is_solar_band(ret.wavelength) /\ ~is_window_band(ret.wavelength)) =>
         ret.value = Mul(PDMSFilmModel_physical_model(substrate_type, ret.wavelength,
                                                      ret.thickness), 9000)
    /\ (~is_solar_band(ret.wavelength) /\ ~is_window_band(ret.wavelength)) =>
         ret.value = PDMSFilmModel_physical_model(substrate_type, ret.wavelength,
                                                  ret.thickness)

\* C21: LiteratureCalibratedPDMSModel.calculate_emissivity returns exactly
\* 0.90 for every wavelength in [8, 13] um and every thickness >= 5 um,
\* whatever the substrate and the correction method; for a thickness < 5 um
\* it returns min(0.95, w * 0.92 + (1 - w) * corrected) with w = thickness / 5;
\* outside [8, 13] um it returns the corrected value unchanged
C21_FinalWindowCalibration ==
  (/\ pc = "returned"
   /\ ret.op = "calculate_emissivity"
   /\ model_class = "LiteratureCalibratedPDMSModel") =>
    LET corrected == CorrectedPDMSModel_physical_model(substrate_type, correction_method,
                                                       ret.wavelength, ret.thickness)
        w == Div(ret.thickness, 5 * S)
    IN  /\ (ret.wavelength >= 8 * WS /\ ret.wavelength <= 13 * WS /\ ret.thickness >= 5 * S)
             => ret.value = 9000
        /\ (ret.wavelength >= 8 * WS /\ ret.wavelength <= 13 * WS /\ ret.thickness < 5 * S)
             => ret.value = Min2(9500, Mul(w, 9200) + Mul(S - w, corrected))
        /\ (ret.wavelength < 8 * WS \/ ret.wavelength > 13 * WS)
             => ret.value = corrected

\* a thick film on metal at the upper edge of the window: the corrected
\* value is far from 0.90 and the calibrated one is 0.90
C21_Witness ==
  /\ pc = "returned"
  /\ ret.op = "calculate_emissivity"
  /\ model_class = "LiteratureCalibratedPDMSModel"
  /\ substrate_type = "metal"
  /\ correction_method = "none"
  /\ ret.wavelength = 13 * WS
  /\ ret.thickness = 10 * S
  /\ ret.value = 9000
  /\ CorrectedPDMSModel_physical_model(substrate_type, correction_method,
                                       ret.wavelength, ret.thickness) < 5000

(***************************************************************************)
(* Calls of the calibrated model around the thin / thick boundary          *)
(***************************************************************************)
\* thicknesses approaching 5 um from below, 5 um, and just above
BoundaryThicknesses == {49000, 49900, 49990, 49999, 50000, 50001}

WindowWavelengths == {8 * WS, 9 * WS, 10 * WS, 1250000, 13 * WS}

NextCalibration ==
  \/ \E wavelength \in WindowWavelengths, thickness \in BoundaryThicknesses :
       CalculateEmissivity(wavelength, thickness)
  \/ Return

InitCalibration == Init /\ model_class = "LiteratureCalibratedPDMSModel"

SpecCalibration == InitCalibration /\ [][NextCalibration]_vars

\* C22: the final window calibration has no jump at thickness = 5 um: for a
\* fixed window wavelength the values for thicknesses approaching 5 um from
\* below converge to the value returned at 5 um.  In the thin branch the
\* value is within (1 - thickness / 5) of its limit, so it would have to be
\* that close to the value at 5 um
C22_NoJumpAtFive ==
  (/\ pc = "returned"
   /\ ret.op = "calculate_emissivity"
   /\ model_class = "LiteratureCalibratedPDMSModel"
   /\ is_window_band(ret.wavelength)
   /\ ret.thickness >= 49900
   /\ ret.thickness < 5 * S) =>
    Abs(ret.value - calculate_emissivity(model_class, substrate_type, correction_method,
                                         ret.wavelength, 5 * S))
      <= ((5 * S - ret.thickness) \div 5) + 2

\* the dielectric-enhancement multiplier of a layer as C24 gives it
DielectricMultiplier(layer) ==
  IF layer[1] = "SiO2" THEN (IF 200 <= layer[2] /\ layer[2] <= 300 THEN 10800 ELSE 10300)
  ELSE (IF 100 <= layer[2] /\ layer[2] <= 200 THEN 11200 ELSE 10500)

\* C24: for every stack holding a reflector layer (Ag or Al) together with a
\* dielectric layer (SiO2 or TiO2), the catalogue stacks of 3, 4 and 5
\* layers among them, calculate_solar_reflectivity returns the solar
\* reflectivity of the reflector times the enhancement multiplier of a
\* dielectric of the stack, capped at 0.98; a stack without a reflector
\* returns 0.15
C24_ReflectorTimesDielectric ==
  (pc = "returned" /\ ret.op = "calculate_structure_performance") =>
    LET reflectors == {l \in 1..Len(ret.structure) : ret.structure[l][1] \in {"Ag", "Al"}}
        dielectrics == {l \in 1..Len(ret.structure) : ret.structure[l][1] \in {"SiO2", "TiO2"}}
    IN  /\ (reflectors /= {} /\ dielectrics /= {}) =>
             \E r \in reflectors, d \in dielectrics :
               /\ \A l \in reflectors : r <= l
               /\ ret.value.solar_reflectivity
                    = Min2(9800, Mul(material_properties[ret.structure[r][1]].solar_reflectivity,
                                     DielectricMultiplier(ret.structure[d])))
        /\ (reflectors = {}) => ret.value.solar_reflectivity = 1500

\* C25: the molecular correction never lowers the base value and never
\* exceeds the cap: for every wavelength, every thickness >= 0 and every
\* base value b of the base estimator with 0 <= b <= 0.95 the result r has
\* b <= r <= 0.95, the peak enhancement and the thickness factor both
\* being >= 1
C25_MolecularRaisesUpToCap ==
  (/\ pc = "returned"
   /\ ret.op = "calculate_emissivity"
   /\ model_class = "CorrectedPDMSModel"
   /\ correction_method = "molecular"
   /\ ret.thickness >= 0) =>
    LET b == PDMSFilmModel_physical_model(substrate_type, ret.wavelength, ret.thickness)
    IN  /\ peak_contribution(ret.wavelength, 9 * WS, 4000) >= 0
        /\ peak_contribution(ret.wavelength, 1250000, 3000) >= 0
        /\ Rise(2500, ret.thickness, 5) >= 0
        /\ (b >= 0 /\ b <= 9500) => (b <= ret.value /\ ret.value <= 9500)

\* at the Si-O-Si peak a base value is raised and stays below the cap
C25_Witness ==
  /\ pc = "returned"
  /\ ret.op = "calculate_emissivity"
  /\ model_class = "CorrectedPDMSModel"
  /\ correction_method = "molecular"
  /\ ret.wavelength = 9 * WS
  /\ ret.thickness > 0
  /\ PDMSFilmModel_physical_model(substrate_type, ret.wavelength, ret.thickness) > 0
  /\ PDMSFilmModel_physical_model(substrate_type, ret.wavelength, ret.thickness) < ret.value
  /\ ret.value < 9500

(***************************************************************************)
(* Calls of a CorrectedPDMSModel built with method "hybrid"                *)
(***************************************************************************)
\* the four anchors, the wavelengths equidistant from two neighbouring
\* anchors (5.25, 11 and 13.5 um), their neighbours, the peaks and 25 um
HybridWavelengths ==
  {50000, 525000, 900000, 1000000, 1099999, 1100000, 1100001, 1200000, 1250000,
   1350000, 1500000, 2500000}

NextHybrid ==
  \/ \E wavelength \in HybridWavelengths, thickness \in ThicknessValues :
       CalculateEmissivity(wavelength, thickness)
  \/ Return

InitHybrid ==
  /\ Init
  /\ model_class = "CorrectedPDMSModel"
  /\ correction_method = "hybrid"

SpecHybrid == InitHybrid /\ [][NextHybrid]_vars

\* the hybrid result of C26 for the call held in ret: the anchor nearest to
\* the wavelength, the earlier-listed one of two equidistant anchors, is
\* blended with the molecular-corrected value with weight
\* exp(-|wavelength - anchor| / 2), and the result lies between the two
\* (to one unit of rounding)
HybridConvexBlend ==
  LET anchors == <<50000, 1000000, 1200000, 1500000>>
      values == <<400, 9000, 9200, 4000>>
      nearest == CHOOSE n \in 1..4 :
                   /\ \A j \in 1..4 : Abs(anchors[n] - ret.wavelength)
                                        <= Abs(anchors[j] - ret.wavelength)
                   /\ \A j \in 1..(n - 1) : Abs(anchors[j] - ret.wavelength)
                                              > Abs(anchors[n] - ret.wavelength)
      weight == Exp(-(Abs(ret.wavelength - anchors[nearest]) \div 20))
      molecular ==
        _molecular_correction(ret.wavelength, ret.thickness,
          PDMSFilmModel_physical_model(substrate_type, ret.wavelength, ret.thickness))
  IN  /\ weight > 0
      /\ weight <= S
      /\ ret.value = Mul(weight, values[nearest]) + Mul(S - weight, molecular)
      /\ ret.value >= Min2(values[nearest], molecular) - 1
      /\ ret.value <= Max2(values[nearest], molecular)

\* C26 as stated: for every wavelength and thickness the hybrid result is
\* the convex blend toward the nearest anchor and lies in [0, 0.95]
C26_HybridConvexEveryThickness ==
  (/\ pc = "returned"
   /\ ret.op = "calculate_emissivity"
   /\ model_class = "CorrectedPDMSModel"
   /\ correction_method = "hybrid") =>
    /\ HybridConvexBlend
    /\ ret.value >= 0
    /\ ret.value <= 9500

\* C26 amended: for every wavelength and thickness the hybrid result is the
\* convex blend toward the nearest anchor; for every thickness >= 0 it lies
\* in [0, 0.95]
C26_HybridConvex ==
  (/\ pc = "returned"
   /\ ret.op = "calculate_emissivity"
   /\ model_class = "CorrectedPDMSModel"
   /\ correction_method = "hybrid") =>
    /\ HybridConvexBlend
    /\ (ret.thickness >= 0) => (ret.value >= 0 /\ ret.value <= 9500)

\* 11 um is equidistant from the anchors 10 and 12 um: the result is blended
\* toward 0.90, the value of the anchor listed first, with weight exp(-0.5):
\* 0.6065 * 0.90 + 0.3935 * 0.14 = 0.601 on metal (0.613 toward 0.92)
C26_Witness ==
  /\ pc = "returned"
  /\ ret.op = "calculate_emissivity"
  /\ model_class = "CorrectedPDMSModel"
  /\ correction_method = "hybrid"
  /\ substrate_type = "metal"
  /\ ret.wavelength = 1100000
  /\ ret.thickness = 10 * S
  /\ ret.value > 6000
  /\ ret.value < 6020

(***************************************************************************)
(* Q4.py and Q3_theory_process.py: the design the later stages assume      *)
(***************************************************************************)
\* self.optimal_designs of ComprehensiveRadiativeCoolingOptimizer
optimal_designs ==
  [single_layer |->
     [structure |-> <<<<"PDMS", 11000>>>>, performance |-> 1011000],
   multilayer_optimal |->
     [structure |-> <<<<"Ag", 100>>, <<"SiO2", 250>>, <<"PDMS", 11000>>>>,
      performance |-> 1365000],
   multilayer_advanced |->
     [structure |-> <<<<"Ag", 100>>, <<"SiO2", 200>>, <<"TiO2", 150>>, <<"PDMS", 11000>>>>,
      performance |-> 1466000]]

\* "工程实践最优: 136.5 W/m² (Ag/SiO2/PDMS)" of the comparison printout
EngineeringPracticeOptimum == 1365000

\* f"{performance:.1f}": the value rounded to one decimal
FormatOneDecimal(x) == ((x + (S \div 20)) \div (S \div 10)) * (S \div 10)

\* results is what analyze_layer_impact(5) returns: the five catalogue
\* stacks in the order of their layer count
CatalogueResults(rs) ==
  /\ Len(rs) = Len(typical_structures)
  /\ \A l \in 1..Len(rs) :
       rs[l].num_layers = l /\ rs[l].structure = typical_structures[l]

\* best is the three-layer stack, with the performance the later stages use
SelectsThreeLayerStack(best) ==
  /\ best.num_layers = 3
  /\ best.structure = <<<<"Ag", 100>>, <<"SiO2", 250>>, <<"PDMS", 11000>>>>
  /\ best.performance = 1364850
  /\ best.structure = optimal_designs.multilayer_optimal.structure
  /\ FormatOneDecimal(best.performance) = optimal_designs.multilayer_optimal.performance
  /\ FormatOneDecimal(best.performance) = EngineeringPracticeOptimum

\* C28: for the built-in catalogue of five typical stacks,
\* analyze_layer_impact(5) followed by find_optimal_structure selects the
\* 3-layer stack Ag(100)/SiO2(250)/PDMS(11000), whose performance 136.485
\* is the value the design table of Q4.py and the comparison printout of
\* Q3_theory_process.py assume (136.5 for the Ag/SiO2/PDMS design)
C28_CatalogueOptimumIsThreeLayers ==
  /\ (pc = "returned" /\ ret.op = "analyze_layer_impact" /\ ret.max_layers = 5) =>
       /\ CatalogueResults(ret.results)
       /\ SelectsThreeLayerStack(find_optimal_structure(ret.results))
  /\ (pc = "returned" /\ ret.op = "find_optimal_structure"
        /\ CatalogueResults(ret.results)) =>
       SelectsThreeLayerStack(ret.best_result)

\* find_optimal_structure has returned for the five catalogue results
C28_Witness ==
  /\ pc = "returned"
  /\ ret.op = "find_optimal_structure"
  /\ CatalogueResults(ret.results)
  /\ ret.best_result.num_layers = 3
  /\ ret.best_result.cost_effectiveness > ret.results[1].cost_effectiveness

\* C29: for every layer stack with positive layer thicknesses
\* calculate_window_emissivity returns a value in [0, 0.95], the emitter
\* thickness factor staying in [0, 1] and the interference multiplier in
\* [1, 1.5]
C29_WindowEmissivityRange ==
  (/\ pc = "returned"
   /\ ret.op = "calculate_structure_performance"
   /\ \A l \in 1..Len(ret.structure) : ret.structure[l][2] > 0) =>
    /\ 0 <= ret.value.window_emissivity
    /\ ret.value.window_emissivity <= 9500
    /\ S <= calculate_interference_enhancement(ret.structure)
    /\ calculate_interference_enhancement(ret.structure) <= 15000

(***************************************************************************)
(* The estimation chain: calculate_emissivity, calculate_band_emissivity,  *)
(* thickness_optimization and calculate_net_cooling_literature_based on    *)
(* one model, in any order                                                 *)
(***************************************************************************)
ChainWavelengths == {150000, 10 * WS}
ChainThicknesses == {5000, 100000}

NextChain ==
  \/ \E wavelength \in ChainWavelengths, thickness \in ChainThicknesses :
       CalculateEmissivity(wavelength, thickness)
  \/ \E band \in Bands, thickness \in ChainThicknesses :
       CalculateBandEmissivity(band, thickness, BandPoints)
  \/ \E thickness_range \in {r \in ThicknessRanges : r[1] > 0}, n_points \in 2..MaxPoints :
       StartOptimization(thickness_range, n_points)
  \/ OptimizationStep
  \/ FinishOptimization
  \/ \E thickness \in ChainThicknesses, environment_profile \in environment_profiles :
       CalculateNetCooling(thickness, environment_profile)
  \/ Return

\* the evaluator of Q2.py on its LiteratureCalibratedPDMSModel
InitChain == InitCooling /\ substrate_type \in {"silicon", "air", "metal"}

SpecChain == InitChain /\ [][NextChain]_vars

\* no step writes the substrate type, the correction method or the class of
\* the model; the optical table and the evaluator's tables are assigned in
\* the constructors only
ConfigurationKept == config' = config

\* the returned value is the one the arguments and the configuration
\* determine, whatever was called before
ResultOfArguments ==
  pc = "returned" =>
    /\ ret.op = "calculate_emissivity" =>
         ret.value = calculate_emissivity(model_class, substrate_type, correction_method,
                                          ret.wavelength, ret.thickness)
    /\ ret.op = "calculate_band_emissivity" =>
         ret.value = calculate_band_emissivity(model_class, substrate_type,
                        correction_method, ret.lambda_min, ret.lambda_max,
                        ret.thickness, ret.n_points)
    /\ ret.op = "thickness_optimization" =>
         /\ ret.thicknesses = Linspace(ret.thickness_range[1], ret.thickness_range[2],
                                       ret.n_points)
         /\ AlignedWithGrid(ret.thicknesses, ret.window_emissivities,
                            ret.solar_emissivities, ret.performance_scores, ret.n_points)
         /\ ret.optimal_thickness = ret.thicknesses[ArgMax(ret.performance_scores, 2, 1)]
    /\ ret.op = "calculate_net_cooling_literature_based" =>
         ret = calculate_net_cooling_literature_based(model_class, substrate_type,
                  correction_method, ret.thickness, ret.environment_profile)

\* C30: the estimation chain is pure: after any sequence of calls to
\* calculate_emissivity, calculate_band_emissivity, thickness_optimization
\* and calculate_net_cooling_literature_based the configuration of the
\* model is unchanged, and the result of a call depends only on its
\* arguments and that configuration, not on earlier calls
C30_EstimationChainPure == []ResultOfArguments /\ [][ConfigurationKept]_vars

\* a net-cooling call made after a thickness optimization whose optimum is
\* another thickness
C30_Witness ==
  /\ pc = "returned"
  /\ ret.op = "calculate_net_cooling_literature_based"
  /\ previous.op = "thickness_optimization"
  /\ previous.optimal_thickness /= ret.thickness
  /\ ret.P_net > 0

(***************************************************************************)
(* The three operations that report a selectivity                          *)
(***************************************************************************)
NextSelectivity ==
  \/ \E thickness_range \in {r \in ThicknessRanges : r[1] > 0}, n_points \in 2..MaxPoints :
       StartOptimization(thickness_range, n_points)
  \/ OptimizationStep
  \/ FinishOptimization
  \/ \E thickness \in {t \in CoolingThicknesses : t > 0},
        environment_profile \in {ReferenceProfile, Env(310, 265, 1000, 5000)} :
       CalculateNetCooling(thickness, environment_profile)
  \/ \E structure \in Structures : CalculateStructurePerformance(structure)
  \/ Return

SpecSelectivity == Init /\ [][NextSelectivity]_vars

\* C4: at the three places that divide by a solar-band value
\* (thickness_optimization, calculate_net_cooling_literature_based,
\* calculate_structure_performance) the denominator is max(value, 0.01),
\* so the selectivity returned is at most window_emissivity / 0.01
C4_SelectivityFloor ==
  /\ ret.op = "thickness_optimization" =>
       ret.optimal_selectivity <= 100 * ret.optimal_window_emissivity
  /\ ret.op = "calculate_net_cooling_literature_based" =>
       ret.selectivity <= 100 * ret.window_emissivity
  /\ ret.op = "calculate_structure_performance" =>
       ret.value.selectivity <= 100 * ret.value.window_emissivity
====
